---- MODULE Spec2Model ----
(***************************************************************************)
(* A model of rkt's stage1 init core: the path resolver, the identity      *)
(* resolver and the isolator mapper of stage1/init/common/pod.go and of    *)
(* the cgroup package.                                                      *)
(*                                                                          *)
(* Strings.  A Go string is modelled as a sequence of symbols.  A symbol   *)
(* is an indivisible run of characters: the separators "/" and ":", the    *)
(* dot names "." and "..", a decimal digit, a sign, or a piece of a file   *)
(* name ("rootfs", "-evil", "myapp", "-2").  A file name is one or more    *)
(* symbols, so that "rootfs-evil" = <<"rootfs", "-evil">> has the string   *)
(* prefix "rootfs", exactly as strings.HasPrefix sees it.                  *)
(***************************************************************************)
EXTENDS Integers, Sequences, FiniteSets, TLC

(***************************************************************************)
(* strings and path/filepath                                                *)
(***************************************************************************)

\* strings.HasPrefix
HasPrefix(s, prefix) ==
    /\ Len(s) >= Len(prefix)
    /\ SubSeq(s, 1, Len(prefix)) = prefix

\* strings.TrimPrefix
TrimPrefix(s, prefix) ==
    IF HasPrefix(s, prefix) THEN SubSeq(s, Len(prefix) + 1, Len(s)) ELSE s

\* strings.Split(s, sep) for a one-symbol separator: always at least one field
RECURSIVE SplitFrom(_, _, _, _)
SplitFrom(s, sep, fields, cur) ==
    IF s = <<>> THEN Append(fields, cur)
    ELSE SplitFrom(Tail(s), sep,
                   IF Head(s) = sep THEN Append(fields, cur) ELSE fields,
                   IF Head(s) = sep THEN <<>> ELSE Append(cur, Head(s)))

Split(s, sep) == SplitFrom(s, sep, <<>>, <<>>)

\* strings.Join(elems, sep)
RECURSIVE StringsJoin(_, _)
StringsJoin(elems, sep) ==
    IF elems = <<>> THEN <<>>
    ELSE IF Len(elems) = 1 THEN elems[1]
    ELSE elems[1] \o <<sep>> \o StringsJoin(Tail(elems), sep)

\* filepath.IsAbs
IsAbs(p) == p # <<>> /\ p[1] = "/"

\* The component loop of filepath.Clean: "" and "." are dropped, ".." backs
\* up over the last kept component, is dropped at the root of a rooted path
\* and is kept at the front of a relative one.
CleanComp(out, c, rooted) ==
    IF c = <<>> \/ c = <<".">> THEN out
    ELSE IF c = <<"..">> THEN
         IF out # <<>> /\ out[Len(out)] # <<"..">> THEN SubSeq(out, 1, Len(out) - 1)
         ELSE IF rooted THEN out
         ELSE Append(out, c)
    ELSE Append(out, c)

RECURSIVE CleanComps(_, _, _)
CleanComps(comps, rooted, out) ==
    IF comps = <<>> THEN out
    ELSE CleanComps(Tail(comps), rooted, CleanComp(out, Head(comps), rooted))

\* filepath.Clean
Clean(p) ==
    LET Result(rooted, out) ==
            IF rooted THEN <<"/">> \o out
            ELSE IF out = <<>> THEN <<".">> ELSE out
    IN IF p = <<>> THEN <<".">>
       ELSE Result(IsAbs(p), StringsJoin(CleanComps(Split(p, "/"), IsAbs(p), <<>>), "/"))

\* filepath.Join: the elements from the first non-empty one on, joined by
\* the separator and cleaned; "" when every element is empty.
RECURSIVE Join(_)
Join(elems) ==
    IF elems = <<>> THEN <<>>
    ELSE IF Head(elems) # <<>> THEN Clean(StringsJoin(elems, "/"))
    ELSE Join(Tail(elems))

\* filepath.SplitList: no entry for the empty list, else split on ":"
SplitList(paths) == IF paths = <<>> THEN <<>> ELSE Split(paths, ":")

(***************************************************************************)
(* The host filesystem as os.Lstat, os.Stat and os.Readlink see it.  A     *)
(* filesystem is a function from the absolute clean paths that exist to    *)
(* nodes [kind, target, exec, uid, gid]; exec is "mode & 0111 # 0".        *)
(***************************************************************************)

\* The kernel gives up (ELOOP) after this many symlinks in one lookup.
MaxSymlinks == 3

Node(kind, target, exec) ==
    [kind |-> kind, target |-> target, exec |-> exec, uid |-> 0, gid |-> 0]

\* Path lookup as the kernel does it for a host process: component by
\* component from cur, a symlink's absolute target restarting at the host's
\* "/", the last component followed only when follow is set.  On ENOENT the
\* path reported is the place that is missing.
WalkStop(err, path) == [done |-> TRUE, err |-> err, path |-> path]
WalkOn(cur, comps, budget) ==
    [done |-> FALSE, cur |-> cur, comps |-> comps, budget |-> budget]

\* The lookup of one component c in the directory cur.
WalkComp(f, cur, c, rest, follow, budget) ==
    LET At(next) ==
            IF f[cur].kind # "dir" THEN WalkStop("ENOTDIR", cur)
            ELSE IF c = <<>> \/ c = <<".">> THEN WalkOn(cur, rest, budget)
            ELSE IF c = <<"..">> THEN WalkOn(next, rest, budget)
            ELSE IF next \notin DOMAIN f
            THEN WalkStop("ENOENT", Join(<<next>> \o rest))
            ELSE IF f[next].kind = "symlink" /\ (rest # <<>> \/ follow)
            THEN IF budget = 0 THEN WalkStop("ELOOP", next)
                 ELSE WalkOn(IF IsAbs(f[next].target) THEN <<"/">> ELSE cur,
                             Split(f[next].target, "/") \o rest, budget - 1)
            ELSE WalkOn(next, rest, budget)
    IN At(Join(<<cur, c>>))

RECURSIVE Walk(_, _, _, _, _)
Walk(f, cur, comps, follow, budget) ==
    LET Next(s) ==
            IF s.done THEN [err |-> s.err, path |-> s.path]
            ELSE Walk(f, s.cur, s.comps, follow, s.budget)
    IN IF comps = <<>> THEN [err |-> "nil", path |-> cur]
       ELSE Next(WalkComp(f, cur, Head(comps), Tail(comps), follow, budget))

\* What a stat call reports for the lookup w: the node found, or the error.
StatResult(f, w) ==
    IF w.err = "nil" THEN [err |-> "nil", at |-> w.path, node |-> f[w.path]]
    ELSE [err |-> w.err, at |-> w.path]

\* os.Lstat / syscall.Lstat of an absolute path: the node, the last
\* component not followed.
Lstat(f, p) == StatResult(f, Walk(f, <<"/">>, Split(p, "/"), FALSE, MaxSymlinks))

\* os.Stat of an absolute path: the node, every symlink followed.
Stat(f, p) == StatResult(f, Walk(f, <<"/">>, Split(p, "/"), TRUE, MaxSymlinks))

\* os.IsNotExist
IsNotExist(err) == err = "ENOENT"

(***************************************************************************)
(* PathResolver: evaluateSymlinksInsideApp, lookupPathInsideApp,           *)
(* appSearchPaths, findBinPath                                              *)
(***************************************************************************)

\* The body of the component loop of evaluateSymlinksInsideApp for
\* component p, link being the path resolved so far and rest the path from
\* p on: "return" with an error, "break" or "continue" with the new link.
EvalComp(f, appRootfs, p, rest, link) ==
    LET Evaluated(next, tgt) ==
            IF ~HasPrefix(tgt, appRootfs)
            THEN [do |-> "return", err |-> "symlink escapes app's root", link |-> tgt]
            ELSE [do |-> "continue", err |-> "nil", link |-> tgt]
        Found(next, fi) ==
            IF fi.err # "nil" THEN
               IF IsNotExist(fi.err)
               THEN [do |-> "break", err |-> "nil", link |-> Join(<<link>> \o rest)]
               ELSE [do |-> "return", err |-> fi.err, link |-> next]
            ELSE IF fi.node.kind # "symlink"
            THEN [do |-> "continue", err |-> "nil", link |-> next]
            ELSE Evaluated(next, Join(<<IF IsAbs(fi.node.target) THEN appRootfs ELSE link,
                                        fi.node.target>>))
        At(next) ==
            IF ~HasPrefix(next, appRootfs)
            THEN [do |-> "return", err |-> "path escapes app's root", link |-> next]
            ELSE Found(next, Lstat(f, next))
    IN At(Join(<<link, p>>))

\* The component loop of evaluateSymlinksInsideApp from component i, and
\* its return statement.
RECURSIVE EvalLoop(_, _, _, _, _)
EvalLoop(f, appRootfs, paths, i, link) ==
    LET Next(s) ==
            IF s.do = "return" THEN [err |-> s.err, path |-> <<>>, link |-> s.link]
            ELSE IF s.do = "break"
            THEN [err |-> "nil", path |-> TrimPrefix(s.link, appRootfs), link |-> s.link]
            ELSE EvalLoop(f, appRootfs, paths, i + 1, s.link)
    IN IF i > Len(paths)
       THEN [err |-> "nil", path |-> TrimPrefix(link, appRootfs), link |-> link]
       ELSE Next(EvalComp(f, appRootfs, paths[i], SubSeq(paths, i, Len(paths)), link))

\* evaluateSymlinksInsideApp(appRootfs, path): [err, path]; link is the
\* absolute path the loop ended with, of which path is the trimmed form.
evaluateSymlinksInsideApp(f, appRootfs, path) ==
    EvalLoop(f, appRootfs, Split(path, "/"), 1, appRootfs)

\* filepath.Abs of a path that is already absolute
Abs(p) == Clean(p)

\* A lookup that accepts whatever has an executable bit, directories too.
IsExecutableFile_AnyMode(d) == d.exec

\* The acceptance test of lookupPathInsideApp on the os.Stat result:
\* not a directory and some executable bit set.
IsExecutableFile(d) == d.kind # "dir" /\ d.exec

\* A lookup that returns the evaluated path instead of the candidate's.
LookupReturn_RealPath(appRootfs, relPath, binRealPath) ==
    TrimPrefix(binRealPath, appRootfs)

\* What lookupPathInsideApp returns for the accepted candidate.
LookupReturn(appRootfs, relPath, binRealPath) == relPath

\* The body of the candidate loop of lookupPathInsideApp for the search
\* path entry path: "continue", or "return" with an error or the result.
LookupCandidate(f, bin, appRootfs, path) ==
    LET Checked(relPath, binRealPath, d2) ==
            IF d2.err # "nil" THEN [do |-> "continue"]
            ELSE IF IsExecutableFile(d2.node)
            THEN [do |-> "return", err |-> "nil",
                  path |-> LookupReturn(appRootfs, relPath, binRealPath)]
            ELSE [do |-> "continue"]
        Real(relPath, binRealPath) ==
            Checked(relPath, binRealPath, Stat(f, binRealPath))
        Evaluated(relPath, ev) ==
            IF ev.err # "nil"
            THEN [do |-> "return", err |-> "could not evaluate path", path |-> <<>>]
            ELSE Real(relPath, Join(<<appRootfs, ev.path>>))
        Found(relPath, d) ==
            IF d.err # "nil" THEN [do |-> "continue"]
            ELSE Evaluated(relPath, evaluateSymlinksInsideApp(f, appRootfs, relPath))
        At(binAbsPath) ==
            Found(TrimPrefix(binAbsPath, appRootfs), Lstat(f, binAbsPath))
    IN At(Abs(Join(<<path, bin>>)))

\* The candidate loop of lookupPathInsideApp from entry k of appPathsArr,
\* and the error returned when it runs out.
RECURSIVE LookupLoop(_, _, _, _, _)
LookupLoop(f, bin, appRootfs, appPathsArr, k) ==
    LET Next(s) ==
            IF s.do = "return" THEN [err |-> s.err, path |-> s.path]
            ELSE LookupLoop(f, bin, appRootfs, appPathsArr, k + 1)
    IN IF k > Len(appPathsArr) THEN [err |-> "unable to find", path |-> <<>>]
       ELSE Next(LookupCandidate(f, bin, appRootfs, appPathsArr[k]))

\* lookupPathInsideApp(bin, paths, appRootfs)
lookupPathInsideApp(f, bin, paths, appRootfs) ==
    LET AppPathsArr(pathsArr) ==
            [k \in 1..Len(pathsArr) |-> Join(<<appRootfs, pathsArr[k]>>)]
    IN LookupLoop(f, bin, appRootfs, AppPathsArr(SplitList(paths)), 1)

\* appSearchPaths: the app's PATH split on ":", or the pod's directory and
\* then "/bin" and "/usr/bin"; env is [set, value], the app's PATH variable.
appSearchPaths(appRootfs, env) ==
    IF env.set THEN Split(env.value, ":")
    ELSE <<appRootfs, <<"/", "bin">>, <<"/", "usr", "/", "bin">>>>

\* findBinPath
findBinPath(f, appRootfs, env, bin) ==
    LET Result(r) ==
            IF r.err # "nil" THEN [err |-> "error looking up", path |-> <<>>]
            ELSE [err |-> "nil", path |-> TrimPrefix(r.path, appRootfs)]
    IN Result(lookupPathInsideApp(f, bin,
                  StringsJoin(appSearchPaths(appRootfs, env), ":"), appRootfs))

(***************************************************************************)
(* IdentityResolver: parseUserGroup                                         *)
(***************************************************************************)

DigitChars == <<"0", "1", "2", "3", "4", "5", "6", "7", "8", "9">>
IsDigit(c) == \E i \in 1..Len(DigitChars) : DigitChars[i] = c
DigitVal(c) == (CHOOSE i \in 1..Len(DigitChars) : DigitChars[i] = c) - 1

\* A number parser that keeps the last digit only.
DecimalValue_LastDigit(digits, acc) ==
    IF digits = <<>> THEN acc ELSE DigitVal(digits[Len(digits)])

RECURSIVE DecimalValue(_, _)
DecimalValue(digits, acc) ==
    IF digits = <<>> THEN acc
    ELSE DecimalValue(Tail(digits), acc * 10 + DigitVal(Head(digits)))

\* strconv.Atoi: an optional sign and one or more decimal digits.  The specs
\* of the model are too short to leave the range of int.
Atoi(s) ==
    LET Parse(digits) ==
            IF digits = <<>> \/ \E i \in 1..Len(digits) : ~IsDigit(digits[i])
            THEN [err |-> "invalid syntax", val |-> 0]
            ELSE [err |-> "nil",
                  val |-> IF s[1] = "-" THEN 0 - DecimalValue(digits, 0)
                          ELSE DecimalValue(digits, 0)]
    IN Parse(IF s # <<>> /\ s[1] \in {"+", "-"} THEN Tail(s) ELSE s)

\* A uid range is [Shift, Count]; the zero value means no shift.
BlankUidRange == [Shift |-> 0, Count |-> 0]

\* uidRange.UnshiftRange for one id (the code passes 0 for the id it does
\* not want): the id relative to the range, an error when the range does
\* not contain it, the id itself when there is no shift.
UnshiftRange(r, id) ==
    IF r.Shift = 0 \/ r.Count = 0 THEN [err |-> "nil", id |-> id]
    ELSE IF id < r.Shift \/ id >= r.Shift + r.Count
    THEN [err |-> "out of range", id |-> 0]
    ELSE [err |-> "nil", id |-> id - r.Shift]

\* passwd.LookupUidFromFile / group.LookupGidFromFile: the id recorded for
\* the name in the file, an error when the file has no such name.
LookupIdFromFile(file, name) ==
    IF name \in DOMAIN file THEN [err |-> "nil", id |-> file[name]]
    ELSE [err |-> "not found", id |-> -1]

LstatAccess(path) == [call |-> "Lstat", path |-> path]
LookupAccess(path) == [call |-> "LookupIdFromFile", path |-> path]

\* A resolver that asks the app's passwd file before it tries the number.
ResolveUser_LookupFirst(f, passwdFile, r, appRootfs, user) ==
    LET Named(l, n) ==
            IF l.err = "nil" THEN [err |-> "nil", id |-> l.id,
                                   accessed |-> {LookupAccess(Join(<<appRootfs, <<"etc", "/", "passwd">>>>))}]
            ELSE IF n.err = "nil" THEN [err |-> "nil", id |-> n.val, accessed |-> {}]
            ELSE [err |-> "cannot lookup user", id |-> -1,
                  accessed |-> {LookupAccess(Join(<<appRootfs, <<"etc", "/", "passwd">>>>))}]
    IN IF user = <<"root">> THEN [err |-> "nil", id |-> 0, accessed |-> {}]
       ELSE Named(LookupIdFromFile(passwdFile, user), Atoi(user))

\* The first switch of parseUserGroup, on app.User: [err, id, accessed],
\* accessed being the filesystem accesses made.
ResolveUser(f, passwdFile, r, appRootfs, user) ==
    LET Unshifted(path, u) ==
            IF u.err # "nil"
            THEN [err |-> "unable to determine real uid", id |-> -1,
                  accessed |-> {LstatAccess(path)}]
            ELSE [err |-> "nil", id |-> u.id, accessed |-> {LstatAccess(path)}]
        Statted(path, st) ==
            IF st.err # "nil"
            THEN [err |-> "unable to get uid from file", id |-> -1,
                  accessed |-> {LstatAccess(path)}]
            ELSE Unshifted(path, UnshiftRange(r, st.node.uid))
        Named(path, l) ==
            IF l.err # "nil"
            THEN [err |-> "cannot lookup user", id |-> -1,
                  accessed |-> {LookupAccess(path)}]
            ELSE [err |-> "nil", id |-> l.id, accessed |-> {LookupAccess(path)}]
        Numbered(n) ==
            IF n.err # "nil"
            THEN Named(Join(<<appRootfs, <<"etc", "/", "passwd">>>>),
                       LookupIdFromFile(passwdFile, user))
            ELSE [err |-> "nil", id |-> n.val, accessed |-> {}]
        AtPath(path) == Statted(path, Lstat(f, path))
    IN IF user = <<"root">> THEN [err |-> "nil", id |-> 0, accessed |-> {}]
       ELSE IF HasPrefix(user, <<"/">>) THEN AtPath(Join(<<appRootfs, user>>))
       ELSE Numbered(Atoi(user))

\* The second switch of parseUserGroup, on app.Group.
ResolveGroup(f, groupFile, r, appRootfs, group) ==
    LET Unshifted(path, u) ==
            IF u.err # "nil"
            THEN [err |-> "unable to determine real gid", id |-> -1,
                  accessed |-> {LstatAccess(path)}]
            ELSE [err |-> "nil", id |-> u.id, accessed |-> {LstatAccess(path)}]
        Statted(path, st) ==
            IF st.err # "nil"
            THEN [err |-> "unable to get gid from file", id |-> -1,
                  accessed |-> {LstatAccess(path)}]
            ELSE Unshifted(path, UnshiftRange(r, st.node.gid))
        Named(path, l) ==
            IF l.err # "nil"
            THEN [err |-> "cannot lookup group", id |-> -1,
                  accessed |-> {LookupAccess(path)}]
            ELSE [err |-> "nil", id |-> l.id, accessed |-> {LookupAccess(path)}]
        Numbered(n) ==
            IF n.err # "nil"
            THEN Named(Join(<<appRootfs, <<"etc", "/", "group">>>>),
                       LookupIdFromFile(groupFile, group))
            ELSE [err |-> "nil", id |-> n.val, accessed |-> {}]
        AtPath(path) == Statted(path, Lstat(f, path))
    IN IF group = <<"root">> THEN [err |-> "nil", id |-> 0, accessed |-> {}]
       ELSE IF HasPrefix(group, <<"/">>) THEN AtPath(Join(<<appRootfs, group>>))
       ELSE Numbered(Atoi(group))

\* parseUserGroup: [err, uid, gid, accessed]; the group is not looked at
\* when the user cannot be resolved.
parseUserGroup(f, acc, r, appRootfs, user, group) ==
    LET Both(u, g) ==
            IF g.err # "nil"
            THEN [err |-> g.err, uid |-> -1, gid |-> -1,
                  accessed |-> u.accessed \cup g.accessed]
            ELSE [err |-> "nil", uid |-> u.id, gid |-> g.id,
                  accessed |-> u.accessed \cup g.accessed]
        First(u) ==
            IF u.err # "nil"
            THEN [err |-> u.err, uid |-> -1, gid |-> -1, accessed |-> u.accessed]
            ELSE Both(u, ResolveGroup(f, acc.group, r, appRootfs, group))
    IN First(ResolveUser(f, acc.passwd, r, appRootfs, user))

(***************************************************************************)
(* State                                                                    *)
(***************************************************************************)

VARIABLES
    fs,         \* the host filesystem, the app's root filesystem inside it
    resolved,   \* PathResolver: the call made and what it returned
    accounts,   \* the app's etc/passwd and etc/group: [passwd, group]
    uidRange,   \* the user namespace range in force: [Shift, Count]
    identity,   \* IdentityResolver: the call made and what it returned
    mapped,     \* IsolatorMapper: the call made and what it returned
    catalogued, \* ControllerCatalog: the call made and what it returned
    mounted,    \* CgroupMounter: the run of CreateCgroups
    quoted,     \* UnitEmitter: the call of quoteExec and what it returned
    emitted     \* UnitEmitter: the run of PodToSystemd

vars == <<fs, resolved, accounts, uidRange, identity, mapped, catalogued, mounted, quoted,
          emitted>>

pathVars == <<resolved>>
identVars == <<accounts, uidRange, identity>>
isolatorVars == <<mapped>>
catalogVars == <<catalogued>>
mounterVars == <<mounted>>
quoteVars == <<quoted>>
emitterVars == <<emitted>>

\* What the calls of one component leave alone.
exceptPath == <<identVars, isolatorVars, catalogVars, mounterVars, quoteVars, emitterVars>>
exceptIdent == <<pathVars, isolatorVars, catalogVars, mounterVars, quoteVars, emitterVars>>
exceptIsolator == <<pathVars, identVars, catalogVars, mounterVars, quoteVars, emitterVars>>
exceptCatalog == <<pathVars, identVars, isolatorVars, mounterVars, quoteVars, emitterVars>>
exceptMounter == <<pathVars, identVars, isolatorVars, catalogVars, quoteVars, emitterVars>>
exceptQuote == <<pathVars, identVars, isolatorVars, catalogVars, mounterVars, emitterVars>>
exceptEmitter == <<pathVars, identVars, isolatorVars, catalogVars, mounterVars, quoteVars>>

NoCall == [op |-> "none"]

(***************************************************************************)
(* The filesystems the PathResolver is run on.  The app's root is          *)
(* /rootfs; beside it the host has /etc/x and the sibling directory        *)
(* /rootfs-evil.  Four places inside the app vary: bin/myapp,              *)
(* usr/bin/myapp, usr/bin/myapp-2 and lnk.                                  *)
(***************************************************************************)

\* The longest input path of evaluateSymlinksInsideApp, in components.
MaxPathLen == 2

\* The longest search path of lookupPathInsideApp, in entries.
MaxSearchPath == 2

AppRoot == <<"/", "rootfs">>

\* The absolute path with the given components.
P(comps) == <<"/">> \o StringsJoin(comps, "/")

Dir == Node("dir", <<>>, TRUE)
ExecFile == Node("file", <<>>, TRUE)
PlainFile == Node("file", <<>>, FALSE)
Symlink(target) == Node("symlink", target, TRUE)

Absent == [kind |-> "absent"]
NoFiles == [x \in {} |-> x]
Place(path, opt) == IF opt = Absent THEN NoFiles ELSE (path :> opt)

BinMyapp == P(<<<<"rootfs">>, <<"bin">>, <<"myapp">>>>)
UsrBinMyapp == P(<<<<"rootfs">>, <<"usr">>, <<"bin">>, <<"myapp">>>>)
UsrBinMyapp2 == P(<<<<"rootfs">>, <<"usr">>, <<"bin">>, <<"myapp", "-2">>>>)
Lnk == P(<<<<"rootfs">>, <<"lnk">>>>)

BaseFs ==
    (<<"/">> :> Dir)
    @@ (P(<<<<"etc">>>>) :> Dir)
    @@ (P(<<<<"etc">>, <<"x">>>>) :> ExecFile)
    @@ (P(<<<<"rootfs", "-evil">>>>) :> Dir)
    @@ (P(<<<<"rootfs", "-evil">>, <<"x">>>>) :> ExecFile)
    @@ (AppRoot :> Dir)
    @@ (P(<<<<"rootfs">>, <<"bin">>>>) :> Dir)
    @@ (P(<<<<"rootfs">>, <<"usr">>>>) :> Dir)
    @@ (P(<<<<"rootfs">>, <<"usr">>, <<"bin">>>>) :> Dir)

BinMyappTargets ==
    { <<"/", "usr", "/", "bin", "/", "myapp", "-2">>,
      <<"..", "/", "usr", "/", "bin", "/", "myapp", "-2">>,
      <<"..", "/", "..", "/", "etc", "/", "x">>,
      <<"/", "etc", "/", "x">>,
      <<"/", "lnk">> }

LnkTargets ==
    { <<"/", "bin", "/", "myapp">>,
      <<"..", "/", "rootfs", "-evil", "/", "x">>,
      <<"/", "etc">>,
      <<"lnk">> }

Layouts ==
    { BaseFs @@ Place(BinMyapp, a) @@ Place(UsrBinMyapp, b)
             @@ Place(UsrBinMyapp2, c) @@ Place(Lnk, d) :
        a \in {Absent, ExecFile, PlainFile, Dir} \cup {Symlink(t) : t \in BinMyappTargets},
        b \in {Absent, ExecFile},
        c \in {Absent, ExecFile},
        d \in {Absent} \cup {Symlink(t) : t \in LnkTargets} }

\* Sequences of 1..n elements of S.
SeqsUpTo(S, n) == UNION { [1..k -> S] : k \in 1..n }

PathComps == { <<"..">>, <<"bin">>, <<"myapp">>, <<"lnk">> }

\* The input paths: up to MaxPathLen components, with or without a leading "/".
InputPaths ==
    { lead \o StringsJoin(cs, "/") :
        lead \in {<<>>, <<"/">>}, cs \in SeqsUpTo(PathComps, MaxPathLen) }
    \cup {<<>>, <<"/">>}

Bins == { <<"myapp">>, <<"myapp", "-2">> }

SearchDirs == { AppRoot, <<"/", "bin">>, <<"/", "usr", "/", "bin">> }

\* The search paths: up to MaxSearchPath entries joined by ":".
SearchPaths ==
    { StringsJoin(ds, ":") : ds \in SeqsUpTo(SearchDirs, MaxSearchPath) } \cup {<<>>}

(***************************************************************************)
(* PathResolver calls                                                       *)
(***************************************************************************)

CallEvaluateSymlinks ==
    /\ resolved = NoCall
    /\ \E path \in InputPaths :
          resolved' = [op |-> "evaluateSymlinksInsideApp", appRootfs |-> AppRoot,
                       in |-> path,
                       ret |-> evaluateSymlinksInsideApp(fs, AppRoot, path)]
    /\ UNCHANGED <<fs, exceptPath>>

CallLookupPath ==
    /\ resolved = NoCall
    /\ \E bin \in Bins, paths \in SearchPaths :
          resolved' = [op |-> "lookupPathInsideApp", appRootfs |-> AppRoot,
                       bin |-> bin, paths |-> paths,
                       ret |-> lookupPathInsideApp(fs, bin, paths, AppRoot)]
    /\ UNCHANGED <<fs, exceptPath>>

CallFindBinPath ==
    /\ resolved = NoCall
    /\ \E bin \in Bins,
          env \in {[set |-> FALSE, value |-> <<>>]}
                  \cup {[set |-> TRUE, value |-> v] : v \in SearchPaths} :
          resolved' = [op |-> "findBinPath", appRootfs |-> AppRoot,
                       bin |-> bin, env |-> env,
                       ret |-> findBinPath(fs, AppRoot, env, bin)]
    /\ UNCHANGED <<fs, exceptPath>>

NoFile == [x \in {} |-> 0]

\* The components at rest.
PathIdle == resolved = NoCall
IdentIdle ==
    /\ accounts = [passwd |-> NoFile, group |-> NoFile]
    /\ uidRange = BlankUidRange
    /\ identity = NoCall
IsolatorIdle == mapped = NoCall
CatalogIdle == catalogued = NoCall
MounterIdle == mounted = NoCall
QuoteIdle == quoted = NoCall
EmitterIdle == emitted = NoCall
UnitsIdle == MounterIdle /\ QuoteIdle /\ EmitterIdle

PathInit ==
    /\ fs \in Layouts
    /\ resolved = NoCall
    /\ IdentIdle /\ IsolatorIdle /\ CatalogIdle /\ UnitsIdle

PathNext == CallEvaluateSymlinks \/ CallLookupPath \/ CallFindBinPath

PathSpec == PathInit /\ [][PathNext]_vars

(***************************************************************************)
(* PathResolver: properties                                                 *)
(***************************************************************************)

\* The clean absolute path p is the directory root or lies below it.
Inside(root, p) == p = root \/ HasPrefix(p, root \o <<"/">>)

\* Where a host process ends up when it opens the absolute path p.
Designates(f, p) == Walk(f, <<"/">>, Split(p, "/"), TRUE, MaxSymlinks)

\* C1: whenever evaluateSymlinksInsideApp returns without an error, the
\* returned path joined onto the app root designates a location inside the
\* app root.
C1_NeverOutsideAppRoot ==
    (resolved.op = "evaluateSymlinksInsideApp" /\ resolved.ret.err = "nil") =>
        LET w == Designates(fs, Join(<<resolved.appRootfs, resolved.ret.path>>)) IN
        w.err \in {"nil", "ENOENT"} => Inside(resolved.appRootfs, w.path)

\* The candidates of a lookup, in search path order, as absolute paths.
Candidates(bin, paths, appRootfs) ==
    LET pathsArr == SplitList(paths) IN
    [k \in 1..Len(pathsArr) |-> Clean(Join(<<Join(<<appRootfs, pathsArr[k]>>), bin>>))]

\* The candidate cand exists.
Exists(f, cand) == Lstat(f, cand).err = "nil"

\* Where the candidate's symlinks, evaluated inside the app root, lead.
RealPath(f, appRootfs, cand) ==
    LET ev == evaluateSymlinksInsideApp(f, appRootfs, TrimPrefix(cand, appRootfs)) IN
    [err |-> ev.err, path |-> Join(<<appRootfs, ev.path>>)]

\* The candidate exists, and what it leads to inside the app root exists,
\* is not a directory and has an executable permission bit.
Qualifies(f, appRootfs, cand) ==
    /\ Exists(f, cand)
    /\ LET real == RealPath(f, appRootfs, cand) IN
       /\ real.err = "nil"
       /\ LET d == Stat(f, real.path) IN
          d.err = "nil" /\ d.node.kind # "dir" /\ d.node.exec

\* The candidate exists and its symlinks cannot be evaluated inside the app
\* root.
FailsEvaluation(f, appRootfs, cand) ==
    Exists(f, cand) /\ RealPath(f, appRootfs, cand).err # "nil"

Min(S) == CHOOSE k \in S : \A j \in S : k <= j

LookupCands == Candidates(resolved.bin, resolved.paths, resolved.appRootfs)
LookupQualifying ==
    { k \in DOMAIN LookupCands : Qualifies(fs, resolved.appRootfs, LookupCands[k]) }
LookupFailing ==
    { k \in DOMAIN LookupCands : FailsEvaluation(fs, resolved.appRootfs, LookupCands[k]) }

\* A lookup succeeded and the candidate it matched is a symbolic link.
LookupMatchedSymlink ==
    /\ resolved.op = "lookupPathInsideApp"
    /\ resolved.ret.err = "nil"
    /\ LookupQualifying # {}
    /\ Lstat(fs, LookupCands[Min(LookupQualifying)]).node.kind = "symlink"

\* C2 as claimed: when the matching candidate of a lookup is a symlink, the
\* path returned is the app-root-relative path of the symlink's target.
C2_ReturnsSymlinkTarget ==
    LookupMatchedSymlink =>
        resolved.ret.path =
            TrimPrefix(RealPath(fs, resolved.appRootfs,
                                LookupCands[Min(LookupQualifying)]).path,
                       resolved.appRootfs)

\* C2 as amended: when the matching candidate of a lookup is a symlink, the
\* path returned is the app-root-relative path of the symlink itself; the
\* target is evaluated only to test that it is an executable file.
C2_ReturnsSymlinkItself ==
    LookupMatchedSymlink =>
        resolved.ret.path =
            TrimPrefix(LookupCands[Min(LookupQualifying)], resolved.appRootfs)

\* A lookup matched a symlink whose target is another file of the app.
C2_Witness ==
    /\ LookupMatchedSymlink
    /\ RealPath(fs, resolved.appRootfs, LookupCands[Min(LookupQualifying)]).path
           # LookupCands[Min(LookupQualifying)]

MaxSpecLen == 2

\* The largest id in a file, and the largest owner id.
MaxId == 4

SpecSymbols == {"0", "1", "-", "/", "u"}

\* Every spec of at most MaxSpecLen symbols, the sentinel and the empty spec.
AllSpecs == SeqsUpTo(SpecSymbols, MaxSpecLen) \cup {<<"root">>, <<>>}

\* One spec of each form, for the field that is not being varied.
SomeSpecs == {<<"root">>, <<"0">>, <<"1">>, <<"-", "1">>, <<"/", "u">>, <<"u">>}

IdentFile == P(<<<<"rootfs">>, <<"u">>>>)

OwnedBy(node, uid, gid) == [node EXCEPT !.uid = uid, !.gid = gid]

IdentLayouts ==
    { (<<"/">> :> Dir) @@ (AppRoot :> Dir) @@ (IdentFile :> OwnedBy(PlainFile, o[1], o[2])) :
        o \in {<<0, 0>>, <<2, 3>>, <<3, 0>>, <<MaxId, 2>>} }

Accounts ==
    { [passwd |-> NoFile, group |-> NoFile],
      [passwd |-> (<<"u">> :> 1) @@ (<<"root">> :> 2) @@ (<<"1">> :> 0),
       group |-> (<<"u">> :> 3) @@ (<<"root">> :> MaxId) @@ (<<"1">> :> 0)],
      [passwd |-> (<<"u">> :> 0), group |-> (<<"u">> :> 0)] }

UidRanges == { BlankUidRange, [Shift |-> 2, Count |-> 2] }

CallParseUserGroup ==
    /\ identity = NoCall
    /\ \E user \in AllSpecs, group \in AllSpecs :
          /\ user \in SomeSpecs \/ group \in SomeSpecs
          /\ identity' = [op |-> "parseUserGroup", appRootfs |-> AppRoot,
                          user |-> user, group |-> group,
                          ret |-> parseUserGroup(fs, accounts, uidRange, AppRoot,
                                                 user, group)]
    /\ UNCHANGED <<fs, accounts, uidRange, exceptIdent>>

IdentInit ==
    /\ fs \in IdentLayouts
    /\ accounts \in Accounts
    /\ uidRange \in UidRanges
    /\ identity = NoCall
    /\ PathIdle /\ IsolatorIdle /\ CatalogIdle /\ UnitsIdle

IdentNext == CallParseUserGroup

IdentSpec == IdentInit /\ [][IdentNext]_vars

(***************************************************************************)
(* IdentityResolver properties                                              *)
(***************************************************************************)

ParseCalled == identity # NoCall /\ identity.op = "parseUserGroup"
ParseSucceeded == ParseCalled /\ identity.ret.err = "nil"

\* C4: for every user spec, group spec and uid range, parseUserGroup either
\* returns an error or returns a (uid, gid) pair of non-negative integers.
C4_NonNegativeOrError ==
    ParseSucceeded => identity.ret.uid >= 0 /\ identity.ret.gid >= 0

RangeActive == uidRange.Shift # 0 /\ uidRange.Count # 0

\* The spec is an optional sign and one or more decimal digits.
IsDecimalInteger(spec) ==
    LET Digits(d) == d # <<>> /\ \A i \in 1..Len(d) : IsDigit(d[i])
    IN Digits(IF spec # <<>> /\ spec[1] \in {"+", "-"} THEN Tail(spec) ELSE spec)

\* The integer a decimal spec writes.
DecimalOf(spec) ==
    IF spec[1] = "-" THEN 0 - DecimalValue(Tail(spec), 0)
    ELSE IF spec[1] = "+" THEN DecimalValue(Tail(spec), 0)
    ELSE DecimalValue(spec, 0)

\* The owner (field "uid" or "gid") of the file the path spec names inside
\* the app root, as an id of the range: -1 when there is none.
OwnerInRange(spec, field) ==
    LET Owner(st) ==
            IF st.err # "nil" THEN -1
            ELSE IF ~RangeActive THEN st.node[field]
            ELSE IF st.node[field] < uidRange.Shift
                    \/ st.node[field] >= uidRange.Shift + uidRange.Count THEN -1
            ELSE st.node[field] - uidRange.Shift
    IN Owner(Lstat(fs, Join(<<AppRoot, spec>>)))

\* The spec is a decimal integer all of whose digits are 0.
IsZeroNumeral(spec) ==
    /\ IsDecimalInteger(spec)
    /\ \A i \in 1..Len(spec) : spec[i] \in {"+", "-", "0"}

\* The specs that can stand for id 0: the sentinel, a decimal string of
\* value zero, and the paths and names, which stand for the id found.
CanStandForZero(spec) ==
    \/ spec = <<"root">>
    \/ IsZeroNumeral(spec)
    \/ HasPrefix(spec, <<"/">>)
    \/ ~IsDecimalInteger(spec)

FieldOutcome(spec, field, file, etcFile) ==
    LET Path(own) == [ok |-> own # -1, id |-> own,
                      accessed |-> {LstatAccess(Join(<<AppRoot, spec>>))}]
    IN IF spec = <<"root">> THEN [ok |-> TRUE, id |-> 0, accessed |-> {}]
       ELSE IF HasPrefix(spec, <<"/">>) THEN Path(OwnerInRange(spec, field))
       ELSE IF IsDecimalInteger(spec)
       THEN [ok |-> TRUE, id |-> DecimalOf(spec), accessed |-> {}]
       ELSE [ok |-> spec \in DOMAIN file,
             id |-> IF spec \in DOMAIN file THEN file[spec] ELSE -1,
             accessed |-> {LookupAccess(AppRoot \o <<"/", "etc", "/", etcFile>>)}]

\* C6: parseUserGroup resolves the user and the group each by the fixed
\* precedence: "root" gives 0; else a spec with a leading "/" is resolved
\* only by lstat of that path inside the app root and unshifting the owner;
\* else a decimal integer gives that integer with no filesystem access; else
\* the name is looked up in the app's own etc/passwd or etc/group.  The
\* call succeeds exactly when both fields resolve.
C6_FixedPrecedence ==
    ParseCalled =>
        LET Both(u, g) ==
                IF ~u.ok
                THEN /\ identity.ret.err # "nil"
                     /\ identity.ret.accessed = u.accessed
                ELSE /\ identity.ret.accessed = u.accessed \cup g.accessed
                     /\ IF ~g.ok THEN identity.ret.err # "nil"
                        ELSE /\ identity.ret.err = "nil"
                             /\ identity.ret.uid = u.id
                             /\ identity.ret.gid = g.id
        IN Both(FieldOutcome(identity.user, "uid", accounts.passwd, "passwd"),
                FieldOutcome(identity.group, "gid", accounts.group, "group"))

C6_Witness ==
    /\ ParseSucceeded
    /\ identity.user = <<"1">> /\ <<"1">> \in DOMAIN accounts.passwd
    /\ accounts.passwd[<<"1">>] # 1 /\ identity.ret.uid = 1
    /\ identity.group = <<"/", "u">> /\ RangeActive
    /\ identity.ret.gid = fs[IdentFile].gid - uidRange.Shift
    /\ identity.ret.accessed = {LstatAccess(IdentFile)}

(***************************************************************************)
(* IsolatorMapper: addCpuLimit, addMemoryLimit, MaybeAddIsolator,           *)
(* IsIsolatorSupported, and the isolator loop of appToSystemd               *)
(***************************************************************************)

\* The width of int and int64, scaled down.
IntBits == 16

MaxInt == 2 ^ (IntBits - 1) - 1

\* What a conversion to int keeps of n.
WrapInt(n) == ((n + 2 ^ (IntBits - 1)) % 2 ^ IntBits) - 2 ^ (IntBits - 1)

\* A division that rounds toward minus infinity.
Quo_Floor(a, b) == a \div b

\* Go's integer division, which truncates toward zero (b > 0).
Quo(a, b) == IF a >= 0 THEN a \div b ELSE 0 - ((0 - a) \div b)

RECURSIVE NatDigits(_)
NatDigits(n) ==
    IF n < 10 THEN <<DigitChars[n + 1]>>
    ELSE NatDigits(n \div 10) \o <<DigitChars[(n % 10) + 1]>>

\* strconv.Itoa
Itoa(n) == IF n < 0 THEN <<"-">> \o NatDigits(0 - n) ELSE NatDigits(n)

\* A *resource.Quantity: nil, or an exact amount held in thousandths.
NilQuantity == [isNil |-> TRUE, milli |-> 0]
Quantity(milli) == [isNil |-> FALSE, milli |-> milli]

\* resource.MaxMilliValue: the largest value whose thousandfold fits an int.
MaxMilliValue == MaxInt \div 1000

\* Quantity.Value: the amount in whole units, a fraction rounded away from
\* zero.
Value(q) ==
    IF q.milli >= 0 THEN WrapInt((q.milli + 999) \div 1000)
    ELSE WrapInt(0 - ((999 - q.milli) \div 1000))

\* Quantity.MilliValue: the amount in thousandths, as an int holds it.
MilliValue(q) == WrapInt(q.milli)

\* unit.NewUnitOption
NewUnitOption(section, name, value) ==
    [Section |-> section, Name |-> name, Value |-> value]

addCpuLimit(opts, limit) ==
    IF Value(limit) > MaxMilliValue
    THEN [err |-> "cpu limit exceeds the maximum millivalue", opts |-> <<>>]
    ELSE [err |-> "nil",
          opts |-> Append(opts, NewUnitOption("Service", "CPUQuota",
                              Itoa(WrapInt(Quo(MilliValue(limit), 10))) \o <<"%">>))]

addMemoryLimit(opts, limit) ==
    [err |-> "nil",
     opts |-> Append(opts, NewUnitOption("Service", "MemoryLimit",
                                         Itoa(WrapInt(Value(limit)))))]

\* The keys of isolatorFuncs; isolatorFunc applies the function of a key.
isolatorFuncs == {"cpu", "memory"}
isolatorFunc(isolator, opts, limit) ==
    IF isolator = "cpu" THEN addCpuLimit(opts, limit)
    ELSE addMemoryLimit(opts, limit)

cgroupControllerRWFiles ==
    ("memory" :> <<<<"memory.limit_in_bytes">>>>) @@
    ("cpu" :> <<<<"cpu.cfs_quota_us">>>>)

SysFsCgroup == <<"/", "sys", "/", "fs", "/", "cgroup", "/">>

\* The loop of IsIsolatorSupported over the files of a controller.
RECURSIVE KnobFilesExist(_, _, _)
KnobFilesExist(f, isolator, files) ==
    LET Probed(st) ==
            IF st.err # "nil" /\ IsNotExist(st.err) THEN FALSE
            ELSE KnobFilesExist(f, isolator, Tail(files))
    IN IF files = <<>> THEN TRUE
       ELSE Probed(Stat(f, Join(<<SysFsCgroup, <<isolator>>, Head(files)>>)))

IsIsolatorSupported(f, isolator) ==
    IF isolator \in DOMAIN cgroupControllerRWFiles
    THEN KnobFilesExist(f, isolator, cgroupControllerRWFiles[isolator])
    ELSE FALSE

\* A MaybeAddIsolator for which a controller the kernel lacks is an error.
MaybeAddIsolator_UnsupportedIsError(f, opts, isolator, limit) ==
    IF limit.isNil THEN [err |-> "nil", opts |-> opts]
    ELSE IF IsIsolatorSupported(f, isolator)
    THEN isolatorFunc(isolator, opts, limit)
    ELSE [err |-> "isolator not supported", opts |-> <<>>]

\* MaybeAddIsolator: [err, opts]; the warning goes to stderr.
MaybeAddIsolator(f, opts, isolator, limit) ==
    LET Added(r) == IF r.err # "nil" THEN [err |-> r.err, opts |-> <<>>] ELSE r
    IN IF limit.isNil THEN [err |-> "nil", opts |-> opts]
       ELSE IF IsIsolatorSupported(f, isolator)
       THEN Added(isolatorFunc(isolator, opts, limit))
       ELSE [err |-> "nil", opts |-> opts]

\* An isolator of an app: its kind ("memory", "cpu" or another type, which
\* the loop passes over) and its limit.
Isolator(kind, limit) == [kind |-> kind, limit |-> limit]

\* An isolator loop that honors the first isolator of a kind only.
RECURSIVE AddIsolators_FirstWins(_, _, _)
AddIsolators_FirstWins(f, opts, isolators) ==
    LET Rest(kind) == SelectSeq(Tail(isolators), LAMBDA i : i.kind # kind)
        Next(r) ==
            IF r.err # "nil" THEN [err |-> r.err, opts |-> <<>>]
            ELSE AddIsolators_FirstWins(f, r.opts, Rest(Head(isolators).kind))
    IN IF isolators = <<>> THEN [err |-> "nil", opts |-> opts]
       ELSE Next(IF Head(isolators).kind \in {"memory", "cpu"}
                 THEN MaybeAddIsolator(f, opts, Head(isolators).kind,
                                       Head(isolators).limit)
                 ELSE [err |-> "nil", opts |-> opts])

\* The loop of appToSystemd over app.Isolators: [err, opts].
RECURSIVE AddIsolators(_, _, _)
AddIsolators(f, opts, isolators) ==
    LET Next(r) ==
            IF r.err # "nil" THEN [err |-> r.err, opts |-> <<>>]
            ELSE AddIsolators(f, r.opts, Tail(isolators))
    IN IF isolators = <<>> THEN [err |-> "nil", opts |-> opts]
       ELSE Next(IF Head(isolators).kind \in {"memory", "cpu"}
                 THEN MaybeAddIsolator(f, opts, Head(isolators).kind,
                                       Head(isolators).limit)
                 ELSE [err |-> "nil", opts |-> opts])

(***************************************************************************)
(* IsolatorMapper calls.  The host's /sys/fs/cgroup holds, for the cpu and  *)
(* the memory controller, a directory with or without its knob file, a     *)
(* plain file, or nothing.                                                  *)
(***************************************************************************)

\* The longest isolator list of an app.
MaxIsolators == 3

SysBase ==
    (<<"/">> :> Dir) @@ (P(<<<<"sys">>>>) :> Dir)
    @@ (P(<<<<"sys">>, <<"fs">>>>) :> Dir)
    @@ (P(<<<<"sys">>, <<"fs">>, <<"cgroup">>>>) :> Dir)

ControllerDir(name) == P(<<<<"sys">>, <<"fs">>, <<"cgroup">>, <<name>>>>)
KnobFile(name) == Join(<<ControllerDir(name), cgroupControllerRWFiles[name][1]>>)

ControllerStates(name) ==
    { NoFiles,
      ControllerDir(name) :> Dir,
      ControllerDir(name) :> PlainFile,
      (ControllerDir(name) :> Dir) @@ (KnobFile(name) :> PlainFile) }

SysLayouts ==
    { SysBase @@ c @@ m : c \in ControllerStates("cpu"),
                          m \in ControllerStates("memory") }

\* The amounts of the limits, in thousandths: small ones, negative ones and
\* the ones around the largest that an int holds.
LimitAmounts ==
    { 0, 1, 5, 9, 10, 15, 500, 1000, 1005, -1, -9, -15, -1000,
      MaxMilliValue * 1000 - 1, MaxMilliValue * 1000, MaxMilliValue * 1000 + 1,
      MaxInt - 1, MaxInt, MaxInt + 1, (MaxMilliValue + 1) * 1000,
      (MaxMilliValue + 1) * 1000 + 1 }

Limits == { Quantity(m) : m \in LimitAmounts }

TimeoutOption == NewUnitOption("Service", "TimeoutStartSec", <<"0">>)
OptionLists == { <<>>, <<TimeoutOption>> }

IsolatorNames == {"cpu", "memory", "blkio"}

AppIsolators ==
    { Isolator("cpu", NilQuantity), Isolator("cpu", Quantity(500)),
      Isolator("cpu", Quantity(1005)), Isolator("cpu", Quantity(MaxInt)),
      Isolator("memory", Quantity(2000)),
      Isolator("os/linux/capabilities-retain-set", NilQuantity) }

CallAddCpuLimit ==
    /\ mapped = NoCall
    /\ \E opts \in OptionLists, limit \in Limits :
          mapped' = [op |-> "addCpuLimit", opts |-> opts, limit |-> limit,
                     ret |-> addCpuLimit(opts, limit)]
    /\ UNCHANGED <<fs, exceptIsolator>>

CallMaybeAddIsolator ==
    /\ mapped = NoCall
    /\ \E opts \in OptionLists, isolator \in IsolatorNames,
          limit \in Limits \cup {NilQuantity} :
          mapped' = [op |-> "MaybeAddIsolator", opts |-> opts,
                     isolator |-> isolator, limit |-> limit,
                     ret |-> MaybeAddIsolator(fs, opts, isolator, limit)]
    /\ UNCHANGED <<fs, exceptIsolator>>

CallIsIsolatorSupported ==
    /\ mapped = NoCall
    /\ \E isolator \in IsolatorNames :
          mapped' = [op |-> "IsIsolatorSupported", isolator |-> isolator,
                     ret |-> IsIsolatorSupported(fs, isolator)]
    /\ UNCHANGED <<fs, exceptIsolator>>

\* appToSystemd, as far as the isolators of the app go.
CallAppToSystemd ==
    /\ mapped = NoCall
    /\ \E isolators \in SeqsUpTo(AppIsolators, MaxIsolators) \cup {<<>>} :
          mapped' = [op |-> "appToSystemd", opts |-> <<TimeoutOption>>,
                     isolators |-> isolators,
                     ret |-> AddIsolators(fs, <<TimeoutOption>>, isolators)]
    /\ UNCHANGED <<fs, exceptIsolator>>

IsolatorInit ==
    /\ fs \in SysLayouts
    /\ mapped = NoCall
    /\ PathIdle /\ IdentIdle /\ CatalogIdle /\ UnitsIdle

IsolatorNext ==
    \/ CallAddCpuLimit
    \/ CallMaybeAddIsolator
    \/ CallIsIsolatorSupported
    \/ CallAppToSystemd

IsolatorSpec == IsolatorInit /\ [][IsolatorNext]_vars

(***************************************************************************)
(* IsolatorMapper properties                                                *)
(***************************************************************************)

Called(op) == mapped # NoCall /\ mapped.op = op

OptionsNamed(opts, name) == { k \in 1..Len(opts) : opts[k].Name = name }

\* The isolators the loop turns into an option: a cpu or memory isolator
\* with a limit, whose controller IsIsolatorSupported reports.
Honored(i) ==
    /\ i.kind \in {"memory", "cpu"}
    /\ ~i.limit.isNil
    /\ IsIsolatorSupported(fs, i.kind)

FirstOfKind(isolators, kind) ==
    isolators[Min({ k \in 1..Len(isolators) : isolators[k].kind = kind })]

\* n is m divided by 10, truncated toward zero.
TruncatedTenth(m, n) ==
    IF m >= 0 THEN n * 10 <= m /\ m < n * 10 + 10
    ELSE m <= n * 10 /\ n * 10 - 10 < m

Front(str) == SubSeq(str, 1, Len(str) - 1)

\* The option is the one the code derives from the isolator.
DerivedFrom(opt, i) ==
    /\ opt.Section = "Service"
    /\ IF i.kind = "cpu"
       THEN /\ opt.Name = "CPUQuota"
            /\ opt.Value # <<>> /\ opt.Value[Len(opt.Value)] = "%"
            /\ Atoi(Front(opt.Value)).err = "nil"
            /\ TruncatedTenth(i.limit.milli, Atoi(Front(opt.Value)).val)
       ELSE /\ opt.Name = "MemoryLimit"
            /\ Atoi(opt.Value).err = "nil"
            /\ (Atoi(opt.Value).val - 1) * 1000 < i.limit.milli
            /\ i.limit.milli <= Atoi(opt.Value).val * 1000

QuotaAppended ==
    /\ mapped.ret.err = "nil"
    /\ Len(mapped.ret.opts) = Len(mapped.opts) + 1
    /\ SubSeq(mapped.ret.opts, 1, Len(mapped.opts)) = mapped.opts
    /\ DerivedFrom(mapped.ret.opts[Len(mapped.ret.opts)],
                   Isolator("cpu", mapped.limit))

OverLimit == mapped.ret.err # "nil" /\ mapped.ret.opts = <<>>

\* C8 (as stated): for a CPU limit whose milli-value is within the largest
\* milli-value an int holds, addCpuLimit appends exactly one CPUQuota option
\* of the milli-value divided by 10, truncated toward zero; for every limit
\* whose milli-value exceeds it, an over-limit error and no option.
C8_QuotaUpToLargestMilliValue ==
    Called("addCpuLimit") =>
        IF mapped.limit.milli <= MaxInt THEN QuotaAppended ELSE OverLimit

\* C8 (amended): for a CPU limit that, rounded up to whole units, is at most
\* MaxMilliValue (the largest int divided by 1000), addCpuLimit appends
\* exactly one CPUQuota option of the milli-value divided by 10, truncated
\* toward zero; for every other limit, an over-limit error and no option.
C8_QuotaUpToMaxMilliValue ==
    Called("addCpuLimit") =>
        IF mapped.limit.milli <= MaxMilliValue * 1000 THEN QuotaAppended
        ELSE OverLimit

C8_Witness ==
    /\ Called("addCpuLimit")
    /\ mapped.limit.milli = 1000 /\ mapped.opts # <<>>
    /\ mapped.ret.opts[Len(mapped.ret.opts)].Value = <<"1", "0", "0", "%">>

\* C9: MaybeAddIsolator returns the input option list unchanged and a nil
\* error when the limit is nil, when the isolator kind has no mapping, and
\* when the kind is known but its controller is not supported.
C9_SoftConditionsNeverFail ==
    /\ Called("MaybeAddIsolator")
    /\ \/ mapped.limit.isNil
       \/ mapped.isolator \notin isolatorFuncs
       \/ ~IsIsolatorSupported(fs, mapped.isolator)
    => mapped.ret.err = "nil" /\ mapped.ret.opts = mapped.opts

C9_Witness ==
    /\ Called("MaybeAddIsolator")
    /\ ~mapped.limit.isNil /\ mapped.isolator = "cpu"
    /\ ~IsIsolatorSupported(fs, "cpu")
    /\ mapped.opts = <<TimeoutOption>>
    /\ mapped.ret = [err |-> "nil", opts |-> <<TimeoutOption>>]

\* C10: IsIsolatorSupported(name) is true if and only if name has a list of
\* read-write knob files and every file of it exists under
\* /sys/fs/cgroup/<name>/; it is false for a file that is absent and for a
\* file whose stat fails for another reason.
C10_SupportedIffKnobFilesExist ==
    Called("IsIsolatorSupported") =>
        mapped.ret =
            (/\ mapped.isolator \in DOMAIN cgroupControllerRWFiles
             /\ \A k \in 1..Len(cgroupControllerRWFiles[mapped.isolator]) :
                   Stat(fs, Join(<<SysFsCgroup, <<mapped.isolator>>,
                                   cgroupControllerRWFiles[mapped.isolator][k]>>)).err
                   = "nil")

(***************************************************************************)
(* ControllerCatalog: parseCgroups, getControllers, getControllerSymlinks,  *)
(* getControllerRWFiles.  A line of text is a sequence of symbols, " " and  *)
(* "\t" being the white space.                                              *)
(***************************************************************************)

Spaces == {" ", "\t"}

RECURSIVE SkipSpace(_)
SkipSpace(s) == IF s # <<>> /\ Head(s) \in Spaces THEN SkipSpace(Tail(s)) ELSE s

\* The length of the longest prefix of s without white space.
RECURSIVE WordLen(_)
WordLen(s) == IF s = <<>> \/ Head(s) \in Spaces THEN 0 ELSE 1 + WordLen(Tail(s))

\* The length of the longest prefix of s made of digits.
RECURSIVE DigitsLen(_)
DigitsLen(s) == IF s = <<>> \/ ~IsDigit(Head(s)) THEN 0 ELSE 1 + DigitsLen(Tail(s))

ScanFailed == [ok |-> FALSE, val |-> 0, rest |-> <<>>]

\* The verb %s of fmt.Sscanf: the white space is skipped and the word that
\* follows is taken.
ScanString(s) ==
    LET Word(t, n) ==
            IF n = 0 THEN ScanFailed
            ELSE [ok |-> TRUE, val |-> SubSeq(t, 1, n), rest |-> SubSeq(t, n + 1, Len(t))]
        From(t) == Word(t, WordLen(t))
    IN From(SkipSpace(s))

\* The verb %d of fmt.Sscanf: the white space is skipped and a sign and the
\* digits that follow are taken.
ScanInt(s) ==
    LET Number(neg, d, n) ==
            IF n = 0 THEN ScanFailed
            ELSE [ok |-> TRUE,
                  val |-> IF neg THEN 0 - DecimalValue(SubSeq(d, 1, n), 0)
                          ELSE DecimalValue(SubSeq(d, 1, n), 0),
                  rest |-> SubSeq(d, n + 1, Len(d))]
        Signed(neg, d) == Number(neg, d, DigitsLen(d))
        From(t) ==
            IF t # <<>> /\ Head(t) \in {"+", "-"} THEN Signed(Head(t) = "-", Tail(t))
            ELSE Signed(FALSE, t)
    IN From(SkipSpace(s))

\* The space between two verbs of the format: white space, or the end of
\* the text.
ScanSpace(s) ==
    IF s = <<>> \/ Head(s) \in Spaces
    THEN [ok |-> TRUE, val |-> 0, rest |-> SkipSpace(s)]
    ELSE ScanFailed

\* fmt.Sscanf(text, "%s %d %d %d", &controller, &hierarchy, &num, &enabled)
\* on variables that hold their zero values: the scan stops at the first
\* verb that fails and leaves the later variables alone.
Sscanf4(text) ==
    LET Zero == [controller |-> <<>>, hierarchy |-> 0, num |-> 0, enabled |-> 0]
        V4(v, r) == IF r.ok THEN [v EXCEPT !.enabled = r.val] ELSE v
        G3(v, g) == IF g.ok THEN V4(v, ScanInt(g.rest)) ELSE v
        V3(v, r) == IF r.ok THEN G3([v EXCEPT !.num = r.val], ScanSpace(r.rest)) ELSE v
        G2(v, g) == IF g.ok THEN V3(v, ScanInt(g.rest)) ELSE v
        V2(v, r) ==
            IF r.ok THEN G2([v EXCEPT !.hierarchy = r.val], ScanSpace(r.rest)) ELSE v
        G1(v, g) == IF g.ok THEN V2(v, ScanInt(g.rest)) ELSE v
        V1(v, r) ==
            IF r.ok THEN G1([v EXCEPT !.controller = r.val], ScanSpace(r.rest)) ELSE v
    IN V1(Zero, ScanString(text))

\* A catalog, map[int][]string, is a function from hierarchy ids to
\* sequences of controller names.
NoCgroups == [h \in {} |-> <<>>]

AddLine_AnyEnabled(cgroups, v) ==
    IF v.hierarchy \notin DOMAIN cgroups
    THEN cgroups @@ (v.hierarchy :> <<v.controller>>)
    ELSE [cgroups EXCEPT ![v.hierarchy] = Append(@, v.controller)]

\* The body of the line loop of parseCgroups.
AddLine(cgroups, v) ==
    IF v.enabled = 1
    THEN IF v.hierarchy \notin DOMAIN cgroups
         THEN cgroups @@ (v.hierarchy :> <<v.controller>>)
         ELSE [cgroups EXCEPT ![v.hierarchy] = Append(@, v.controller)]
    ELSE cgroups

RECURSIVE ParseLines(_, _)
ParseLines(lines, cgroups) ==
    IF lines = <<>> THEN cgroups
    ELSE ParseLines(Tail(lines), AddLine(cgroups, Sscanf4(Head(lines))))

\* parseCgroups(f): f is what the reader gives, [lines, err]: the lines it
\* yields and the error that ends them.
parseCgroups(f) ==
    LET Parsed(cgroups) ==
            IF f.err # "nil" THEN [err |-> f.err, cgroups |-> NoCgroups]
            ELSE [err |-> "nil", cgroups |-> cgroups]
    IN Parsed(ParseLines(IF f.lines = <<>> THEN <<>> ELSE Tail(f.lines), NoCgroups))

\* The orders in which a range over a map of the keys S can go.
MapOrders(S) ==
    { o \in [1..Cardinality(S) -> S] : \A i, j \in DOMAIN o : o[i] = o[j] => i = j }

\* getControllers(cgroups), the range over the map going in this order.
getControllers(cgroups, order) ==
    [i \in 1..Len(order) |-> StringsJoin(cgroups[order[i]], ",")]

\* The test of getControllerSymlinks on the controllers of a hierarchy.
IsJoined_Any(cs) == Len(cs) > 0
IsJoined(cs) == Len(cs) > 1

\* The inner loop of getControllerSymlinks.
RECURSIVE LinkNames(_, _, _)
LinkNames(cs, tgt, symlinks) ==
    IF cs = <<>> THEN symlinks
    ELSE LinkNames(Tail(cs), tgt, (Head(cs) :> tgt) @@ symlinks)

NoSymlinks == [ln \in {} |-> <<>>]

\* getControllerSymlinks(cgroups), the range over the map going in this
\* order.
RECURSIVE getControllerSymlinksFrom(_, _, _)
getControllerSymlinksFrom(cgroups, order, symlinks) ==
    IF order = <<>> THEN symlinks
    ELSE getControllerSymlinksFrom(cgroups, Tail(order),
            IF IsJoined(cgroups[Head(order)])
            THEN LinkNames(cgroups[Head(order)],
                           StringsJoin(cgroups[Head(order)], ","), symlinks)
            ELSE symlinks)

getControllerSymlinks(cgroups, order) ==
    getControllerSymlinksFrom(cgroups, order, NoSymlinks)

\* The loop of getControllerRWFiles over the parts of the controller name:
\* <<>> is the nil slice.  The keys of cgroupControllerRWFiles are names of
\* one symbol.
RECURSIVE RWFilesOfParts(_)
RWFilesOfParts(parts) ==
    IF parts = <<>> THEN <<>>
    ELSE IF Len(Head(parts)) = 1 /\ Head(parts)[1] \in DOMAIN cgroupControllerRWFiles
         THEN Append(cgroupControllerRWFiles[Head(parts)[1]], <<"cgroup.procs">>)
         ELSE RWFilesOfParts(Tail(parts))

getControllerRWFiles(controller) == RWFilesOfParts(Split(controller, ","))

(***************************************************************************)
(* ControllerCatalog calls                                                  *)
(***************************************************************************)

\* The most lines after the first that a listing holds.
MaxLines == 3

TextLine(fields, sep) == StringsJoin(fields, sep)

HeaderLine ==
    TextLine(<<<<"#subsys_name">>, <<"hierarchy">>, <<"num_cgroups">>, <<"enabled">>>>, "\t")

\* Lines of /proc/cgroups, and lines that are not.
CatalogLines ==
    { TextLine(<<<<"cpu">>, <<"1">>, <<"4">>, <<"1">>>>, "\t"),
      TextLine(<<<<"cpuacct">>, <<"1">>, <<"4">>, <<"1">>>>, " "),
      TextLine(<<<<"memory">>, <<"1", "0">>, <<"7">>, <<"1">>>>, " "),
      TextLine(<<<<"memory">>, <<"1", "0">>, <<"7">>, <<"0">>>>, " "),
      TextLine(<<<<"devices">>, <<"0">>, <<"1">>, <<"1">>, <<"more">>>>, " "),
      TextLine(<<<<"cpuset">>, <<"2">>, <<"1">>, <<"1", "x">>>>, " "),
      TextLine(<<<<"blkio">>, <<"2">>, <<"1">>, <<"2">>>>, " "),
      TextLine(<<<<"blkio">>, <<"2">>, <<"1">>>>, " "),
      TextLine(<<<<"blkio">>, <<"2", "x">>, <<"1">>, <<"1">>>>, " "),
      <<>> }

Listings ==
    { [lines |-> first \o body, err |-> "nil"] :
        first \in { <<HeaderLine>>,
                    <<TextLine(<<<<"cpu">>, <<"1">>, <<"4">>, <<"1">>>>, " ")>> },
        body \in SeqsUpTo(CatalogLines, MaxLines) \cup {<<>>} }
    \cup { [lines |-> <<>>, err |-> "nil"],
           [lines |-> <<HeaderLine, TextLine(<<<<"cpu">>, <<"1">>, <<"4">>, <<"1">>>>, "\t")>>,
            err |-> "read error"] }

CallParseCgroups ==
    /\ catalogued = NoCall
    /\ \E f \in Listings :
          catalogued' = [op |-> "parseCgroups", f |-> f, ret |-> parseCgroups(f)]
    /\ UNCHANGED <<fs, exceptCatalog>>

\* The catalog of a listing that was read whole.
Catalogs == { parseCgroups(f).cgroups : f \in { g \in Listings : g.err = "nil" } }

\* CreateCgroups hands the catalog to getControllers and to
\* getControllerSymlinks.
CallGetControllerSymlinks ==
    /\ catalogued = NoCall
    /\ \E cgroups \in Catalogs :
          \E o1 \in MapOrders(DOMAIN cgroups), o2 \in MapOrders(DOMAIN cgroups) :
             catalogued' = [op |-> "getControllerSymlinks", cgroups |-> cgroups,
                            controllers |-> getControllers(cgroups, o1),
                            ret |-> getControllerSymlinks(cgroups, o2)]
    /\ UNCHANGED <<fs, exceptCatalog>>

(***************************************************************************)
(* ControllerCatalog properties                                             *)
(***************************************************************************)

\* The fields of a line: its words, in order.
RECURSIVE Fields(_)
Fields(s) ==
    LET Rest(t, n) ==
            IF n = 0 THEN <<>>
            ELSE <<SubSeq(t, 1, n)>> \o Fields(SubSeq(t, n + 1, Len(t)))
        From(t) == Rest(t, WordLen(t))
    IN From(SkipSpace(s))

\* The decimal integer a field begins with: [ok, val].
LeadingInteger(field) ==
    LET n == IF field # <<>> /\ field[1] \in {"+", "-"}
             THEN 1 + DigitsLen(Tail(field)) ELSE DigitsLen(field)
    IN IF n = 0 \/ ~IsDecimalInteger(SubSeq(field, 1, n)) THEN [ok |-> FALSE, val |-> 0]
       ELSE [ok |-> TRUE, val |-> DecimalOf(SubSeq(field, 1, n))]

\* The line has four parseable fields: a name, two decimal integers and a
\* field that begins with a decimal integer.
WellFormed(line) ==
    /\ Len(Fields(line)) >= 4
    /\ IsDecimalInteger(Fields(line)[2])
    /\ IsDecimalInteger(Fields(line)[3])
    /\ LeadingInteger(Fields(line)[4]).ok

\* The line is well formed and its enabled field is 1.
EnabledLine(line) == WellFormed(line) /\ LeadingInteger(Fields(line)[4]).val = 1

\* The controllers of the enabled lines of hierarchy h among lines, in order.
RECURSIVE ControllersOf(_, _)
ControllersOf(lines, h) ==
    IF lines = <<>> THEN <<>>
    ELSE (IF EnabledLine(Head(lines)) /\ DecimalOf(Fields(Head(lines))[2]) = h
          THEN <<Fields(Head(lines))[1]>> ELSE <<>>)
         \o ControllersOf(Tail(lines), h)

\* C11: parseCgroups skips the first line; the result maps each hierarchy id
\* to exactly the controllers of the later lines whose enabled field is 1,
\* in first-seen order within the hierarchy; lines with enabled 0 and lines
\* with fewer than four parseable fields contribute nothing, and no
\* hierarchy id appears with an empty controller list.
C11_EnabledControllersByHierarchy ==
    (catalogued # NoCall /\ catalogued.op = "parseCgroups"
        /\ catalogued.f.err = "nil" /\ catalogued.f.lines # <<>>) =>
        LET later == Tail(catalogued.f.lines)
            cgroups == catalogued.ret.cgroups
            ids == { DecimalOf(Fields(later[k])[2]) :
                       k \in { j \in 1..Len(later) : EnabledLine(later[j]) } }
        IN /\ catalogued.ret.err = "nil"
           /\ DOMAIN cgroups = ids
           /\ \A h \in ids : cgroups[h] = ControllersOf(later, h) /\ cgroups[h] # <<>>

\* A listing whose first line reads like a controller, with a joined
\* hierarchy, a disabled controller and a line cut short after it.
C11_Witness ==
    /\ catalogued # NoCall /\ catalogued.op = "parseCgroups"
    /\ catalogued.f.err = "nil" /\ Len(catalogued.f.lines) = 4
    /\ EnabledLine(catalogued.f.lines[1])
    /\ catalogued.ret.cgroups = (1 :> <<<<"cpuacct">>, <<"cpu">>>>)
    /\ \E k \in 2..4 : ~WellFormed(catalogued.f.lines[k])

\* The controllers of the hierarchies of a catalog that hold more than one.
JoinedNames(cgroups) ==
    { cgroups[h][i] : <<h, i>> \in
        { hi \in (DOMAIN cgroups) \X (1..MaxLines) :
            Len(cgroups[hi[1]]) > 1 /\ hi[2] <= Len(cgroups[hi[1]]) } }

\* C12: getControllerSymlinks maps a name to a joined name exactly for the
\* controllers of the hierarchies with more than one controller; the joined
\* name is the names of that hierarchy joined by commas, one of the names
\* getControllers gives; no controller of a hierarchy with one controller
\* appears.
C12_SymlinksForJoinedHierarchies ==
    (catalogued # NoCall /\ catalogued.op = "getControllerSymlinks") =>
        LET cgroups == catalogued.cgroups
            symlinks == catalogued.ret
        IN /\ DOMAIN symlinks = JoinedNames(cgroups)
           /\ \A h \in DOMAIN cgroups :
                 \A i \in 1..Len(cgroups[h]) :
                    IF Len(cgroups[h]) > 1
                    THEN /\ Split(symlinks[cgroups[h][i]], ",") = cgroups[h]
                         /\ \E k \in DOMAIN catalogued.controllers :
                               catalogued.controllers[k] = symlinks[cgroups[h][i]]
                    ELSE cgroups[h][i] \notin DOMAIN symlinks

\* A catalog with a joined hierarchy and a hierarchy of one controller.
C12_Witness ==
    /\ catalogued # NoCall /\ catalogued.op = "getControllerSymlinks"
    /\ catalogued.cgroups = (1 :> <<<<"cpu">>, <<"cpuacct">>>>) @@ (10 :> <<<<"memory">>>>)
    /\ catalogued.ret = (<<"cpu">> :> <<"cpu", ",", "cpuacct">>)
                        @@ (<<"cpuacct">> :> <<"cpu", ",", "cpuacct">>)
    /\ catalogued.controllers[1] = <<"memory">>

CatalogInit ==
    /\ fs = (<<"/">> :> Dir)
    /\ catalogued = NoCall
    /\ PathIdle /\ IdentIdle /\ IsolatorIdle /\ UnitsIdle

CatalogNext == CallParseCgroups \/ CallGetControllerSymlinks

CatalogSpec == CatalogInit /\ [][CatalogNext]_vars

(***************************************************************************)
(* CgroupMounter: CreateCgroups.  The run is a record: its arguments and    *)
(* what it read, its position (pc and the indexes of its loops), the calls  *)
(* it made on the file system so far and what it returned.                  *)
(***************************************************************************)

\* A call on the file system and whether it succeeded.
FsOp(call, source, target, fstype, flags, ok) ==
    [call |-> call, source |-> source, target |-> target, fstype |-> fstype,
     flags |-> flags, ok |-> ok]

MkdirAllOp(path, ok) == FsOp("MkdirAll", <<>>, path, <<>>, {}, ok)
MountOp(source, target, fstype, flags, ok) == FsOp("Mount", source, target, fstype, flags, ok)
SymlinkOp(tgt, lnPath, ok) == FsOp("Symlink", tgt, lnPath, <<>>, {}, ok)
\* fixCpusetKnobs as one call: ok is whether every call it made succeeded.
FixCpusetOp(cPath, ok) == FsOp("fixCpusetKnobs", <<>>, cPath, <<>>, {}, ok)

NoSuidExecDev == {"MS_NOSUID", "MS_NOEXEC", "MS_NODEV"}
RemountReadOnly == {"MS_BIND", "MS_REMOUNT", "MS_RDONLY"} \cup NoSuidExecDev

SysDir(root) == Join(<<root, <<"/", "sys">>>>)
CgroupTmpfs(root) == Join(<<root, <<"/", "sys", "/", "fs", "/", "cgroup">>>>)
ControllerPath(root, c) == Join(<<root, <<"/", "sys", "/", "fs", "/", "cgroup">>, c>>)
AppCgroup(root, c, subcgroup, serviceName) ==
    Join(<<Join(<<ControllerPath(root, c), subcgroup>>), serviceName>>)
CgroupFilePath(root, c, subcgroup, serviceName, f) ==
    Join(<<AppCgroup(root, c, subcgroup, serviceName), f>>)

\* The variables of the loops of CreateCgroups.
Controller(m) == m.controllers[m.c]
ServiceName(m) == m.serviceNames[m.s]
RWFile(m) == getControllerRWFiles(Controller(m))[m.f]
LinkName(m) == m.linkOrder[m.l]

\* os.Stat of a file of a per-app cgroup directory does not say it is
\* missing: the kernel puts cgroup.procs in every cgroup directory, and the
\* knobs it was built with.
KnobExists(m, f) == f = <<"cgroup.procs">> \/ f \in m.kernel

SymlinkLoop_NoSystemd(m, l) ==
    IF l > Len(m.linkOrder) THEN [m EXCEPT !.pc = "remountTmpfs", !.l = l]
    ELSE [m EXCEPT !.pc = "symlink", !.l = l]

\* Where the run goes on: at the head of the loop over the symlinks, over
\* the controllers, over the service names and over the files of a
\* controller.
SymlinkLoop(m, l) ==
    IF l > Len(m.linkOrder) THEN [m EXCEPT !.pc = "mkdirSystemd", !.l = l]
    ELSE [m EXCEPT !.pc = "symlink", !.l = l]

ControllerLoop_LockFirst(m, c) ==
    IF c > Len(m.controllers) THEN [m EXCEPT !.pc = "remountTmpfs", !.c = c]
    ELSE [m EXCEPT !.pc = "mkdirController", !.c = c]

ControllerLoop(m, c) ==
    IF c > Len(m.controllers) THEN SymlinkLoop([m EXCEPT !.c = c], 1)
    ELSE [m EXCEPT !.pc = "mkdirController", !.c = c]

ServiceLoop(m, sv) ==
    IF sv > Len(m.serviceNames) THEN [m EXCEPT !.pc = "remountController", !.s = sv]
    ELSE [m EXCEPT !.pc = "mkdirApp", !.s = sv]

RECURSIVE FileLoop(_, _)
FileLoop(m, f) ==
    IF f > Len(getControllerRWFiles(Controller(m))) THEN ServiceLoop(m, m.s + 1)
    ELSE IF ~KnobExists(m, getControllerRWFiles(Controller(m))[f]) THEN FileLoop(m, f + 1)
    ELSE [m EXCEPT !.pc = "bindKnob", !.f = f]

GoOnOrFail_Ignored(m, op, next) == [next EXCEPT !.trace = Append(m.trace, op)]

\* The call op is made: the run goes on as next when it succeeds and
\* returns the error when it fails.
GoOnOrFail(m, op, next) ==
    IF op.ok THEN [next EXCEPT !.trace = Append(m.trace, op)]
    ELSE [m EXCEPT !.trace = Append(m.trace, op), !.pc = "returned", !.ret = "error"]

\* The call op is made and the run goes on as next whatever comes of it.
GoOn(m, op, next) == [next EXCEPT !.trace = Append(m.trace, op)]

(***************************************************************************)
(* CgroupMounter calls                                                      *)
(***************************************************************************)

\* The most controllers /proc/cgroups lists and the most service names.
MaxControllers == 3
MaxServices == 2

\* The lines of /proc/cgroups in the order the kernel lists its
\* controllers; memory is mounted with cpu or on its own.
KernelLines ==
    << TextLine(<<<<"cpuset">>, <<"4">>, <<"1">>, <<"1">>>>, "\t"),
       TextLine(<<<<"cpu">>, <<"1">>, <<"9">>, <<"1">>>>, "\t"),
       TextLine(<<<<"cpuacct">>, <<"1">>, <<"9">>, <<"1">>>>, "\t"),
       TextLine(<<<<"memory">>, <<"1">>, <<"9">>, <<"1">>>>, "\t"),
       TextLine(<<<<"memory">>, <<"2">>, <<"9">>, <<"1">>>>, "\t"),
       TextLine(<<<<"devices">>, <<"3">>, <<"5">>, <<"1">>>>, "\t") >>

\* The lines of seq at the indexes S, in the order of seq.
RECURSIVE LinesAt(_, _, _)
LinesAt(seq, S, k) ==
    IF k > Len(seq) THEN <<>>
    ELSE (IF k \in S THEN <<seq[k]>> ELSE <<>>) \o LinesAt(seq, S, k + 1)

MounterListings ==
    { [lines |-> <<HeaderLine>> \o LinesAt(KernelLines, S, 1), err |-> "nil"] :
        S \in { T \in SUBSET (1..Len(KernelLines)) :
                  Cardinality(T) <= MaxControllers /\ ~({4, 5} \subseteq T) } }
    \cup { [lines |-> <<HeaderLine>>, err |-> "read error"] }

AllServiceNames == << <<"web.service">>, <<"db.service">>, <<"log.service">>, <<"job.service">> >>
ServiceLists ==
    { SubSeq(AllServiceNames, 1, k) : k \in 0..Min({MaxServices, Len(AllServiceNames)}) }

\* The knobs a kernel puts in the cgroup directories.
Kernels == { {<<"cpu.cfs_quota_us">>, <<"memory.limit_in_bytes">>}, {<<"memory.limit_in_bytes">>} }

PodRoot == <<"/", "pod">>
Subcgroups == { <<"machine.slice">> }

\* The run after parseCgroups, getControllers and getControllerSymlinks.
Started(root, subcgroup, serviceNames, kernel, cgroups, controllers, linkOrder, symlinks) ==
    [op |-> "CreateCgroups", root |-> root, subcgroup |-> subcgroup,
     serviceNames |-> serviceNames, kernel |-> kernel, cgroups |-> cgroups,
     controllers |-> controllers, symlinks |-> symlinks, linkOrder |-> linkOrder,
     pc |-> "mkdirSys", c |-> 0, s |-> 0, f |-> 0, l |-> 0, trace |-> <<>>,
     ret |-> "running"]

\* os.Open("/proc/cgroups"), parseCgroups and getControllers.
CallCreateCgroups ==
    /\ mounted = NoCall
    /\ \E listing \in MounterListings, serviceNames \in ServiceLists, kernel \in Kernels,
          subcgroup \in Subcgroups :
          LET Begin(parsed) ==
                IF parsed.err # "nil"
                THEN mounted' = [Started(PodRoot, subcgroup, serviceNames, kernel, NoCgroups,
                                         <<>>, <<>>, NoSymlinks)
                                 EXCEPT !.pc = "returned", !.ret = "error"]
                ELSE \E order \in MapOrders(DOMAIN parsed.cgroups) :
                        \E linkOrder \in MapOrders(DOMAIN getControllerSymlinks(parsed.cgroups, order)) :
                           mounted' = Started(PodRoot, subcgroup, serviceNames, kernel,
                                              parsed.cgroups,
                                              getControllers(parsed.cgroups, order), linkOrder,
                                              getControllerSymlinks(parsed.cgroups, order))
          IN Begin(parseCgroups(listing))
    /\ UNCHANGED <<fs, exceptMounter>>

\* 1. Mount /sys read-only
MkdirSys ==
    /\ mounted # NoCall /\ mounted.pc = "mkdirSys"
    /\ \E ok \in BOOLEAN :
          mounted' = GoOnOrFail(mounted, MkdirAllOp(SysDir(mounted.root), ok),
                                [mounted EXCEPT !.pc = "mountSys"])
    /\ UNCHANGED <<fs, exceptMounter>>

MountSys ==
    /\ mounted # NoCall /\ mounted.pc = "mountSys"
    /\ \E ok \in BOOLEAN :
          mounted' = GoOnOrFail(mounted,
                                MountOp(<<"sysfs">>, SysDir(mounted.root), <<"sysfs">>,
                                        {"MS_RDONLY"} \cup NoSuidExecDev, ok),
                                [mounted EXCEPT !.pc = "mkdirTmpfs"])
    /\ UNCHANGED <<fs, exceptMounter>>

\* 2. Mount /sys/fs/cgroup
MkdirTmpfs ==
    /\ mounted # NoCall /\ mounted.pc = "mkdirTmpfs"
    /\ \E ok \in BOOLEAN :
          mounted' = GoOnOrFail(mounted, MkdirAllOp(CgroupTmpfs(mounted.root), ok),
                                [mounted EXCEPT !.pc = "mountTmpfs"])
    /\ UNCHANGED <<fs, exceptMounter>>

MountTmpfs ==
    /\ mounted # NoCall /\ mounted.pc = "mountTmpfs"
    /\ \E ok \in BOOLEAN :
          mounted' = GoOnOrFail(mounted,
                                MountOp(<<"tmpfs">>, CgroupTmpfs(mounted.root), <<"tmpfs">>,
                                        {"MS_STRICTATIME"} \cup NoSuidExecDev, ok),
                                ControllerLoop(mounted, 1))
    /\ UNCHANGED <<fs, exceptMounter>>

\* 3a. Mount controller
MkdirController ==
    /\ mounted # NoCall /\ mounted.pc = "mkdirController"
    /\ \E ok \in BOOLEAN :
          mounted' = GoOnOrFail(mounted,
                                MkdirAllOp(ControllerPath(mounted.root, Controller(mounted)), ok),
                                [mounted EXCEPT !.pc = "mountController"])
    /\ UNCHANGED <<fs, exceptMounter>>

MountController ==
    /\ mounted # NoCall /\ mounted.pc = "mountController"
    /\ \E ok \in BOOLEAN :
          mounted' = GoOnOrFail(mounted,
                                MountOp(<<"cgroup">>,
                                        ControllerPath(mounted.root, Controller(mounted)),
                                        <<"cgroup">>, NoSuidExecDev, ok),
                                IF Controller(mounted) = <<"cpuset">>
                                THEN [mounted EXCEPT !.pc = "fixCpusetKnobs"]
                                ELSE ServiceLoop(mounted, 1))
    /\ UNCHANGED <<fs, exceptMounter>>

\* Workaround for the cpuset controller: fixCpusetKnobs ignores the errors
\* of its calls.
FixCpusetKnobs ==
    /\ mounted # NoCall /\ mounted.pc = "fixCpusetKnobs"
    /\ \E ok \in BOOLEAN :
          mounted' = GoOn(mounted,
                          FixCpusetOp(ControllerPath(mounted.root, Controller(mounted)), ok),
                          ServiceLoop(mounted, 1))
    /\ UNCHANGED <<fs, exceptMounter>>

\* 3c. Create cgroup directories and mount the files we need over themselves
MkdirApp ==
    /\ mounted # NoCall /\ mounted.pc = "mkdirApp"
    /\ \E ok \in BOOLEAN :
          mounted' = GoOnOrFail(mounted,
                                MkdirAllOp(AppCgroup(mounted.root, Controller(mounted),
                                                     mounted.subcgroup, ServiceName(mounted)), ok),
                                FileLoop(mounted, 1))
    /\ UNCHANGED <<fs, exceptMounter>>

BindKnob ==
    /\ mounted # NoCall /\ mounted.pc = "bindKnob"
    /\ \E ok \in BOOLEAN :
          LET Bind(path) ==
                GoOnOrFail(mounted, MountOp(path, path, <<>>, {"MS_BIND"}, ok),
                           FileLoop(mounted, mounted.f + 1))
          IN mounted' = Bind(CgroupFilePath(mounted.root, Controller(mounted),
                                            mounted.subcgroup, ServiceName(mounted),
                                            RWFile(mounted)))
    /\ UNCHANGED <<fs, exceptMounter>>

\* 3d. Re-mount controller read-only
RemountController ==
    /\ mounted # NoCall /\ mounted.pc = "remountController"
    /\ \E ok \in BOOLEAN :
          LET Remount(cPath) ==
                GoOnOrFail(mounted, MountOp(cPath, cPath, <<>>, RemountReadOnly, ok),
                           ControllerLoop(mounted, mounted.c + 1))
          IN mounted' = Remount(ControllerPath(mounted.root, Controller(mounted)))
    /\ UNCHANGED <<fs, exceptMounter>>

\* 4. Create symlinks for combined controllers
CreateSymlink ==
    /\ mounted # NoCall /\ mounted.pc = "symlink"
    /\ \E ok \in BOOLEAN :
          mounted' = GoOnOrFail(mounted,
                                SymlinkOp(mounted.symlinks[LinkName(mounted)],
                                          Join(<<CgroupTmpfs(mounted.root), LinkName(mounted)>>),
                                          ok),
                                SymlinkLoop(mounted, mounted.l + 1))
    /\ UNCHANGED <<fs, exceptMounter>>

\* 5. Create systemd cgroup directory
MkdirSystemd ==
    /\ mounted # NoCall /\ mounted.pc = "mkdirSystemd"
    /\ \E ok \in BOOLEAN :
          mounted' = GoOnOrFail(mounted,
                                MkdirAllOp(Join(<<CgroupTmpfs(mounted.root), <<"systemd">>>>), ok),
                                [mounted EXCEPT !.pc = "remountTmpfs"])
    /\ UNCHANGED <<fs, exceptMounter>>

\* 6. Bind-mount cgroup filesystem read-only
RemountTmpfs ==
    /\ mounted # NoCall /\ mounted.pc = "remountTmpfs"
    /\ \E ok \in BOOLEAN :
          LET Remount(path) ==
                GoOnOrFail(mounted, MountOp(path, path, <<>>, RemountReadOnly, ok),
                           [mounted EXCEPT !.pc = "returned", !.ret = "nil"])
          IN mounted' = Remount(CgroupTmpfs(mounted.root))
    /\ UNCHANGED <<fs, exceptMounter>>

MounterInit ==
    /\ fs = (<<"/">> :> Dir)
    /\ mounted = NoCall
    /\ PathIdle /\ IdentIdle /\ IsolatorIdle /\ CatalogIdle /\ QuoteIdle /\ EmitterIdle

MounterNext ==
    \/ CallCreateCgroups
    \/ MkdirSys
    \/ MountSys
    \/ MkdirTmpfs
    \/ MountTmpfs
    \/ MkdirController
    \/ MountController
    \/ FixCpusetKnobs
    \/ MkdirApp
    \/ BindKnob
    \/ RemountController
    \/ CreateSymlink
    \/ MkdirSystemd
    \/ RemountTmpfs

MounterSpec == MounterInit /\ [][MounterNext]_vars

(***************************************************************************)
(* CgroupMounter properties                                                 *)
(***************************************************************************)

Running == mounted # NoCall
Succeeded == Running /\ mounted.ret = "nil"

\* The path is the directory or lies below it.
Under(path, dir) == path = dir \/ HasPrefix(path, dir \o <<"/">>)

IsBindMount(op) == op.call = "Mount" /\ op.flags = {"MS_BIND"}
IsRemount(op) == op.call = "Mount" /\ "MS_REMOUNT" \in op.flags

\* The phase of a call of the run, of the eight: 1 sysfs, 2 the cgroup
\* tmpfs, 3 the cgroup filesystem of a hierarchy, 4 the per-app directories
\* and their knobs, 5 the read-only remount of a hierarchy, 6 the symlinks,
\* 7 the systemd directory, 8 the read-only remount of the tmpfs.
Phase(op) ==
    IF op.call = "Symlink" THEN 6
    ELSE IF op.call = "fixCpusetKnobs" THEN 3
    ELSE IF op.call = "Mount" THEN
         IF op.fstype = <<"sysfs">> THEN 1
         ELSE IF op.fstype = <<"tmpfs">> THEN 2
         ELSE IF op.fstype = <<"cgroup">> THEN 3
         ELSE IF IsBindMount(op) THEN 4
         ELSE IF op.target = CgroupTmpfs(mounted.root) THEN 8
         ELSE 5
    ELSE IF op.target = SysDir(mounted.root) THEN 1
    ELSE IF op.target = CgroupTmpfs(mounted.root) THEN 2
    ELSE IF op.target = Join(<<CgroupTmpfs(mounted.root), <<"systemd">>>>) THEN 7
    ELSE IF \E k \in DOMAIN mounted.controllers :
               op.target = ControllerPath(mounted.root, mounted.controllers[k]) THEN 3
    ELSE 4

\* Every phase that has something to do did it: the run made the calls of
\* phases 1, 2, 7 and 8, those of phases 3 and 5 for every hierarchy, the
\* directory of phase 4 for every hierarchy and service name, and the
\* symlink of phase 6 for every combined controller.
NoPhaseSkipped ==
    LET Did(call, target) ==
            \E i \in DOMAIN mounted.trace :
               mounted.trace[i].call = call /\ mounted.trace[i].target = target
        Remounted(target) ==
            \E i \in DOMAIN mounted.trace :
               IsRemount(mounted.trace[i]) /\ mounted.trace[i].target = target
    IN /\ Did("MkdirAll", SysDir(mounted.root)) /\ Did("Mount", SysDir(mounted.root))
       /\ Did("MkdirAll", CgroupTmpfs(mounted.root))
       /\ \E i \in DOMAIN mounted.trace : Phase(mounted.trace[i]) = 2 /\ mounted.trace[i].call = "Mount"
       /\ \A h \in DOMAIN mounted.cgroups :
             LET cPath == ControllerPath(mounted.root, StringsJoin(mounted.cgroups[h], ","))
             IN /\ Did("MkdirAll", cPath)
                /\ \E i \in DOMAIN mounted.trace :
                      Phase(mounted.trace[i]) = 3 /\ mounted.trace[i].call = "Mount"
                      /\ mounted.trace[i].target = cPath
                /\ Remounted(cPath)
                /\ \A k \in DOMAIN mounted.serviceNames :
                      Did("MkdirAll", Join(<<cPath, mounted.subcgroup, mounted.serviceNames[k]>>))
       /\ \A ln \in DOMAIN mounted.symlinks :
             Did("Symlink", Join(<<CgroupTmpfs(mounted.root), ln>>))
       /\ Did("MkdirAll", Join(<<CgroupTmpfs(mounted.root), <<"systemd">>>>))
       /\ Remounted(CgroupTmpfs(mounted.root))

\* C13 as stated: CreateCgroups runs its eight phases as a strict sequence
\* for any number of hierarchies: in every successful run no phase is
\* skipped and no call of an earlier phase comes after a call of a later
\* phase: the phases of the calls never go down from one call to the next.
C13_EightPhasesInSequence ==
    Succeeded =>
        /\ NoPhaseSkipped
        /\ \A i \in 1..(Len(mounted.trace) - 1) :
              Phase(mounted.trace[i]) <= Phase(mounted.trace[i + 1])

\* The place of a call in the order of the run: phases 1 and 2, then
\* phases 3, 4 and 5 of the first hierarchy, then those of the second, and
\* so on, then phases 6, 7 and 8.
HierarchyOf(op) ==
    CHOOSE k \in DOMAIN mounted.controllers :
        Under(op.target, ControllerPath(mounted.root, mounted.controllers[k]))

Place3(op) ==
    IF Phase(op) \in {1, 2} THEN Phase(op)
    ELSE IF Phase(op) \in 3..5 THEN 3 * HierarchyOf(op) + (Phase(op) - 3)
    ELSE 3 * (Len(mounted.controllers) + 1) + Phase(op)

\* C13: in every successful run of CreateCgroups no phase is skipped, and
\* the calls come in this order: phases 1 and 2; then, one hierarchy after
\* the other, phases 3, 4 and 5 of that hierarchy; then phases 6, 7 and 8.
\* No call of an earlier place comes after a call of a later place: the
\* places of the calls never go down from one call to the next.
C13_PhasesInSequencePerHierarchy ==
    Succeeded =>
        /\ NoPhaseSkipped
        /\ \A i \in 1..(Len(mounted.trace) - 1) :
              Place3(mounted.trace[i]) <= Place3(mounted.trace[i + 1])

\* A successful run over two hierarchies, one of them joined, and two
\* service names.
C13_Witness ==
    /\ Succeeded
    /\ Len(mounted.controllers) = 2 /\ Len(mounted.serviceNames) = 2
    /\ DOMAIN mounted.symlinks # {}
    /\ \E i \in DOMAIN mounted.trace : IsBindMount(mounted.trace[i])

\* C14 as stated: when any step fails, the cpuset workaround among them,
\* CreateCgroups returns an error and makes no later call.
C14_AnyFailureAborts ==
    Running =>
        \A i \in DOMAIN mounted.trace :
           ~mounted.trace[i].ok =>
               i = Len(mounted.trace) /\ mounted.pc = "returned" /\ mounted.ret = "error"

\* C14: when a mkdir, a mount, a bind-mount, a remount, a symlink or the
\* creation of the systemd directory fails, CreateCgroups returns an error,
\* makes no later call and neither unmounts nor removes anything: the failed
\* call is the last call of the run.  A failure of the cpuset workaround is
\* ignored: the run does not return an error for it.
C14_FailureAbortsButWorkaround ==
    Running =>
        /\ \A i \in DOMAIN mounted.trace :
              /\ mounted.trace[i].call \in {"MkdirAll", "Mount", "Symlink", "fixCpusetKnobs"}
              /\ (~mounted.trace[i].ok /\ mounted.trace[i].call # "fixCpusetKnobs") =>
                    i = Len(mounted.trace) /\ mounted.pc = "returned" /\ mounted.ret = "error"
        /\ (mounted.trace # <<>> /\ mounted.ret = "error") =>
              /\ ~mounted.trace[Len(mounted.trace)].ok
              /\ mounted.trace[Len(mounted.trace)].call # "fixCpusetKnobs"

\* A run in which the cpuset workaround failed and that went on to the
\* bind-mount of a knob, which failed.
C14_Witness ==
    /\ Running /\ mounted.ret = "error" /\ mounted.pc = "returned"
    /\ mounted.trace # <<>>
    /\ IsBindMount(mounted.trace[Len(mounted.trace)])
    /\ ~mounted.trace[Len(mounted.trace)].ok
    /\ \E i \in DOMAIN mounted.trace :
          mounted.trace[i].call = "fixCpusetKnobs" /\ ~mounted.trace[i].ok

\* The files bind-mounted in the per-app cgroup directory of a hierarchy.
BoundFiles(c, serviceName) ==
    { f \in {<<"cgroup.procs">>, <<"cpu.cfs_quota_us">>, <<"memory.limit_in_bytes">>} :
        \E i \in DOMAIN mounted.trace :
           /\ IsBindMount(mounted.trace[i]) /\ mounted.trace[i].ok
           /\ mounted.trace[i].target =
                 Join(<<ControllerPath(mounted.root, c), mounted.subcgroup, serviceName, f>>) }

\* The read-write knobs of every member of a hierarchy.
MemberKnobs(cs) ==
    { f \in {<<"cpu.cfs_quota_us">>, <<"memory.limit_in_bytes">>} :
        \E i \in DOMAIN cs : \E k \in DOMAIN cgroupControllerRWFiles :
           cs[i] = <<k>> /\ \E n \in DOMAIN cgroupControllerRWFiles[k] :
                               cgroupControllerRWFiles[k][n] = f }

\* C15: after a successful CreateCgroups, for every hierarchy, whatever its
\* members, and every service name, the files bind-mounted in the per-app
\* cgroup directory are exactly cgroup.procs and the read-write knobs of
\* every member controller, those of them that exist there.
C15_WritableKnobsOfEveryMember ==
    Succeeded =>
        \A h \in DOMAIN mounted.cgroups : \A k \in DOMAIN mounted.serviceNames :
           BoundFiles(StringsJoin(mounted.cgroups[h], ","), mounted.serviceNames[k])
             = { f \in {<<"cgroup.procs">>} \cup MemberKnobs(mounted.cgroups[h]) :
                   KnobExists(mounted, f) }

(***************************************************************************)
(* UnitEmitter: execEscape and quoteExec.  A string is the sequence of its  *)
(* characters.                                                              *)
(***************************************************************************)

\* fmt.Sprintf("%q", str) on these characters: the string between double
\* quotes, a double quote and a backslash escaped by a backslash, a newline
\* written \n.
QuoteChar(c) ==
    IF c = "\"" THEN <<"\\", "\"">>
    ELSE IF c = "\\" THEN <<"\\", "\\">>
    ELSE IF c = "\n" THEN <<"\\", "n">>
    ELSE <<c>>

RECURSIVE QuoteChars(_)
QuoteChars(str) == IF str = <<>> THEN <<>> ELSE QuoteChar(Head(str)) \o QuoteChars(Tail(str))

Sprintf_q(str) == <<"\"">> \o QuoteChars(str) \o <<"\"">>

\* The test of execEscape on the index of the argument.
EscapesDollar_Always(i) == TRUE
EscapesDollar(i) == i > 0

\* escapeMap of execEscape for the argument of index i.
escapeMap(i) ==
    IF EscapesDollar(i) THEN ("'" :> "\\") @@ ("$" :> "$") ELSE ("'" :> "\\")

\* re.ReplaceAllStringFunc for the class of the one character k: every k
\* becomes escapeMap[k] and k.
RECURSIVE ReplaceAll(_, _, _)
ReplaceAll(escArg, k, with) ==
    IF escArg = <<>> THEN <<>>
    ELSE (IF Head(escArg) = k THEN <<with, k>> ELSE <<Head(escArg)>>)
         \o ReplaceAll(Tail(escArg), k, with)

\* The loop of execEscape over the keys of escapeMap, the range going in
\* this order.
RECURSIVE EscapeKeys(_, _, _)
EscapeKeys(escArg, keys, map) ==
    IF keys = <<>> THEN escArg
    ELSE EscapeKeys(ReplaceAll(escArg, Head(keys), map[Head(keys)]), Tail(keys), map)

execEscape(i, str, keys) == EscapeKeys(Sprintf_q(str), keys, escapeMap(i))

\* The loop of quoteExec: ranges[k] is the order of the range of the call
\* of execEscape for exec[k], whose index is k - 1.
quoteArgs(exec, ranges) == [k \in DOMAIN exec |-> execEscape(k - 1, exec[k], ranges[k])]

quoteExec(exec, ranges) ==
    IF Len(exec) = 0 THEN [panic |-> TRUE, qexec |-> <<>>, ret |-> <<>>]
    ELSE [panic |-> FALSE, qexec |-> quoteArgs(exec, ranges),
          ret |-> StringsJoin(quoteArgs(exec, ranges), " ")]

(***************************************************************************)
(* quoteExec calls                                                          *)
(***************************************************************************)

\* The most characters of an exec line, the breaks between its arguments
\* counted.
MaxExecLen == 4

ArgBreak == "|"
ExecChars == {"a", "'", "$", "\\", "\""}

\* The exec lines: the arguments are what lies between the breaks.
Execs ==
    { Split(text, ArgBreak) : text \in SeqsUpTo(ExecChars \cup {ArgBreak}, MaxExecLen) }
    \cup {<<>>, <<<<>>>>}

CallQuoteExec ==
    /\ quoted = NoCall
    /\ \E exec \in Execs :
          \E ranges \in [DOMAIN exec -> MapOrders({"'", "$"}) \cup MapOrders({"'"})] :
             /\ \A k \in DOMAIN exec :
                   ranges[k] \in MapOrders(DOMAIN escapeMap(k - 1))
             /\ quoted' = [op |-> "quoteExec", exec |-> exec, ranges |-> ranges,
                           out |-> quoteExec(exec, ranges)]
    /\ UNCHANGED <<fs, exceptQuote>>

QuoteInit ==
    /\ fs = (<<"/">> :> Dir)
    /\ quoted = NoCall
    /\ PathIdle /\ IdentIdle /\ IsolatorIdle /\ CatalogIdle /\ MounterIdle /\ EmitterIdle

QuoteNext == CallQuoteExec

QuoteSpec == QuoteInit /\ [][QuoteNext]_vars

(***************************************************************************)
(* quoteExec properties                                                     *)
(***************************************************************************)

Quoted == quoted # NoCall /\ ~quoted.out.panic

\* The string in one pass: between double quotes, a backslash before every
\* double quote, backslash and single quote, and every "$" written twice
\* when doubled is set.
RECURSIVE OnePass(_, _)
OnePass(str, doubled) ==
    IF str = <<>> THEN <<>>
    ELSE (IF Head(str) \in {"\"", "\\", "'"} THEN <<"\\", Head(str)>>
          ELSE IF Head(str) = "$" /\ doubled THEN <<"$", "$">>
          ELSE <<Head(str)>>)
         \o OnePass(Tail(str), doubled)

\* C17: in what quoteExec returns every single quote has a backslash before
\* it; every "$" of an argument of index above 0 is written "$$" and a "$"
\* of the argument of index 0 is left as it is; the result is the same
\* whatever the order in which execEscape applies its escape rules.
C17_QuotesEscapedDollarsDoubled ==
    Quoted =>
        /\ \A k \in DOMAIN quoted.out.ret :
              quoted.out.ret[k] = "'" => k > 1 /\ quoted.out.ret[k - 1] = "\\"
        /\ \A k \in DOMAIN quoted.exec :
              quoted.out.qexec[k] = <<"\"">> \o OnePass(quoted.exec[k], k > 1) \o <<"\"">>
        /\ quoted.out.ret = StringsJoin(quoted.out.qexec, " ")

\* A second argument with a quote and a dollar, the dollar rule applied
\* first, after a first argument with a dollar.
C17_Witness ==
    /\ Quoted
    /\ quoted.exec = << <<"$">>, <<"'", "$">> >>
    /\ quoted.ranges[2] = <<"$", "'">>
    /\ quoted.out.ret = <<"\"", "$", "\"", " ", "\"", "\\", "'", "$", "$", "\"">>

(***************************************************************************)
(* UnitEmitter: appToSystemd, PodToSystemd, WriteDefaultTarget.  The names  *)
(* and paths that helpers of other files of the package give              *)
(* (ServiceUnitName, ServiceUnitPath, ...) are not interpreted: each is the *)
(* helper applied to its argument, so two of them are the same name only    *)
(* when the helper and the argument are the same.                           *)
(***************************************************************************)

Term(fn, arg) == <<fn, "(">> \o arg \o <<")">>

ServiceUnitName(appName) == Term("ServiceUnitName", appName)
SocketUnitName(appName) == Term("SocketUnitName", appName)
InstantiatedPrepareAppUnitName(appName) == Term("InstantiatedPrepareAppUnitName", appName)
ServiceUnitPath(appName) == Term("ServiceUnitPath", appName)
SocketUnitPath(appName) == Term("SocketUnitPath", appName)
ServiceWantPath(appName) == Term("ServiceWantPath", appName)
SocketWantPath(appName) == Term("SocketWantPath", appName)
EnvFilePathSystemd(appName) == Term("EnvFilePathSystemd", appName)
EnvFilePathEnterexec(appName) == Term("EnvFilePathEnterexec", appName)
RelEnvFilePathSystemd(appName) == Term("RelEnvFilePathSystemd", appName)
RelAppRootfsPath(appName) == Term("RelAppRootfsPath", appName)

\* filepath.Join(common.Stage1RootfsPath(p.Root), UnitsDir)
UnitsPath == Join(<< <<"Stage1RootfsPath(p.Root)">>, <<"UnitsDir">> >>)
ReaperUnitPath(appName) == Join(<<UnitsPath, <<"reaper-">> \o appName \o <<".service">>>>)
ShutdownUnitPath == Join(<<UnitsPath, <<"shutdown.service">>>>)
DefaultTargetPath == Join(<<UnitsPath, <<"default.target">>>>)
SysusersDir ==
    Join(<< <<"Stage1RootfsPath(p.Root)">>, <<"usr", "/", "lib", "/", "sysusers.d">> >>)
SysusersFile(appName) ==
    Join(<< <<"Stage1RootfsPath(p.Root)">>, <<"usr", "/", "lib", "/", "sysusers.d">>,
            ServiceUnitName(appName) \o <<".conf">> >>)

\* A file or a symlink that a call puts in the pod's directory.
FileWritten(path, content) == [kind |-> "file", path |-> path, content |-> content]
SymlinkMade(target, path) == [kind |-> "symlink", path |-> path, content |-> target]

\* A step of appToSystemd: the error it ends with and what it wrote before.
\* A write at the place that the fault names fails and leaves nothing.
Step(err, writes) == [err |-> err, writes |-> writes]
WriteStep(fault, place, err, write) ==
    IF fault = place THEN Step(err, <<>>) ELSE Step("nil", <<write>>)

\* The steps up to the first that fails: [err, writes].
RECURSIVE RunSteps(_)
RunSteps(steps) ==
    LET Both(first, rest) == Step(rest.err, first.writes \o rest.writes)
    IN IF steps = <<>> THEN Step("nil", <<>>)
       ELSE IF Head(steps).err # "nil" THEN Head(steps)
       ELSE Both(Head(steps), RunSteps(Tail(steps)))

\* types.Environment.Get
EnvGet(env, name) ==
    LET At(I) == IF I = {} THEN [set |-> FALSE, value |-> <<>>]
                 ELSE [set |-> TRUE, value |-> env[Min(I)].Value]
    IN At({ i \in DOMAIN env : env[i].Name = name })

\* env := app.Environment and env.Set(name, value).  The slice env shares
\* the array of the manifest's slice until an append finds no room in it:
\* v is [env, manifest, shared, spare], spare being the room left.
EnvView(environment, spare) ==
    [env |-> environment, manifest |-> environment, shared |-> TRUE, spare |-> spare]

EnvSet(v, name, value) ==
    LET Var == [Name |-> name, Value |-> value]
        At(I) ==
            IF I # {}
            THEN [v EXCEPT !.env[Min(I)] = Var,
                           !.manifest = IF v.shared /\ Min(I) <= Len(v.manifest)
                                        THEN [v.manifest EXCEPT ![Min(I)] = Var]
                                        ELSE v.manifest]
            ELSE [v EXCEPT !.env = Append(v.env, Var),
                           !.shared = v.shared /\ v.spare > 0,
                           !.spare = IF v.spare > 0 THEN v.spare - 1 ELSE 0]
    IN At({ i \in DOMAIN v.env : v.env[i].Name = name })

\* The lines 405-410 of appToSystemd.
AppEnv(p, ra) ==
    LET WithUrl(v) ==
            IF p.MetadataServiceURL # <<>>
            THEN EnvSet(v, <<"AC_METADATA_URL">>, p.MetadataServiceURL) ELSE v
    IN WithUrl(EnvSet(EnvView(ra.Environment, ra.EnvSpare), <<"AC_APP_NAME">>, ra.Name))

defaultEnv ==
    (<<"PATH">> :> <<"/usr/local/sbin:/usr/local/bin:/usr/sbin:/usr/bin:/sbin:/bin">>)
    @@ (<<"SHELL">> :> <<"/bin/sh">>) @@ (<<"USER">> :> <<"root">>)
    @@ (<<"LOGNAME">> :> <<"root">>) @@ (<<"HOME">> :> <<"/root">>)

\* writeEnvFile: the defaults that env does not set, in the order of the
\* range over the map, which the content leaves open, then env.
writeEnvFile(fault, place, env, separator, envFilePath) ==
    WriteStep(fault, place, "unable to write environment file",
              FileWritten(envFilePath,
                  [defaults |-> { dk \in DOMAIN defaultEnv : ~EnvGet(env, dk).set },
                   env |-> env, separator |-> separator]))

\* generateSysusers, for a blank uid range.
generateSysusers(fault, ra, uid, gid) ==
    LET Group(g) == <<"g ", "gen">> \o Itoa(g) \o <<" ">> \o Itoa(g) \o <<"\n">>
        User(u) ==
            <<"u ", "gen">> \o Itoa(u) \o <<" ">> \o Itoa(u) \o <<" \"", "gen">> \o Itoa(u)
            \o <<"\"", "\n">>
        Conf(gids) == Append([k \in DOMAIN gids |-> Group(gids[k])], User(uid))
    IN WriteStep(fault, "Sysusers", "unable to generate sysusers",
                 FileWritten(SysusersFile(ra.Name),
                             StringsJoin(Conf(Append(ra.SupplementaryGIDs, gid)), "\n")))

\* filepath.Base
Base(path) ==
    LET Last(cs) == IF cs = <<>> THEN <<"/">> ELSE cs[Len(cs)]
    IN IF path = <<>> THEN <<".">>
       ELSE Last(SelectSeq(Split(path, "/"), LAMBDA c : c # <<>>))

\* The binary of the app: [err, path].
BinPath(f, appRootfs, ra) ==
    IF ra.Exec = <<>> THEN [err |-> "empty exec", path |-> <<>>]
    ELSE IF IsAbs(ra.Exec[1]) THEN [err |-> "nil", path |-> ra.Exec[1]]
    ELSE findBinPath(f, appRootfs, EnvGet(ra.Environment, <<"PATH">>), ra.Exec[1])

\* The order of the range of execEscape that the units are written with:
\* the rules apply to different characters.
EscapeRange(i) == IF EscapesDollar(i) THEN <<"'", "$">> ELSE <<"'">>
QuotedExec(exec) == quoteExec(exec, [k \in DOMAIN exec |-> EscapeRange(k - 1)]).ret

LinuxCapabilitiesRetainSetName == "os/linux/capabilities-retain-set"

appDefaultCapabilities ==
    [kind |-> LinuxCapabilitiesRetainSetName, limit |-> NilQuantity,
     caps |-> << <<"CAP_AUDIT_WRITE">>, <<"CAP_CHOWN">>, <<"CAP_DAC_OVERRIDE">>,
                 <<"CAP_FSETID">>, <<"CAP_FOWNER">>, <<"CAP_KILL">>, <<"CAP_MKNOD">>,
                 <<"CAP_NET_RAW">>, <<"CAP_NET_BIND_SERVICE">>, <<"CAP_SETUID">>,
                 <<"CAP_SETGID">>, <<"CAP_SETPCAP">>, <<"CAP_SETFCAP">>,
                 <<"CAP_SYS_CHROOT">> >>]

\* GetAppCapabilities
RECURSIVE GetAppCapabilities(_)
GetAppCapabilities(isolators) ==
    IF isolators = <<>> THEN <<>>
    ELSE (IF Head(isolators).kind = LinuxCapabilitiesRetainSetName
             /\ "caps" \in DOMAIN Head(isolators)
          THEN Head(isolators).caps ELSE <<>>)
         \o GetAppCapabilities(Tail(isolators))

\* The options of the service unit up to the event handlers.
ServiceOptions(p, ra, binPath, uid, gid) ==
    << NewUnitOption("Unit", "Description",
                     <<"Application=">> \o ra.Name \o <<" Image=">> \o ra.Image),
       NewUnitOption("Unit", "DefaultDependencies", <<"false">>),
       NewUnitOption("Unit", "Wants", <<"reaper-">> \o ra.Name \o <<".service">>),
       NewUnitOption("Service", "Restart", <<"no">>),
       NewUnitOption("Service", "ExecStart", QuotedExec(<<binPath>> \o Tail(ra.Exec))),
       NewUnitOption("Service", "RootDirectory", RelAppRootfsPath(ra.Name)),
       NewUnitOption("Service", "WorkingDirectory",
                     IF ra.WorkingDirectory # <<>> THEN ra.WorkingDirectory ELSE <<"/">>),
       NewUnitOption("Service", "EnvironmentFile", RelEnvFilePathSystemd(ra.Name)),
       NewUnitOption("Service", "User", Itoa(uid)),
       NewUnitOption("Service", "Group", Itoa(gid)),
       NewUnitOption("Service", "SupplementaryGroups",
                     StringsJoin([k \in DOMAIN ra.SupplementaryGIDs |->
                                     Itoa(ra.SupplementaryGIDs[k])], " ")),
       NewUnitOption("Service", "CapabilityBoundingSet",
                     StringsJoin(GetAppCapabilities(Append(ra.Isolators,
                                                           appDefaultCapabilities)), " ")) >>
    \o (IF p.interactive
        THEN << NewUnitOption("Service", "StandardInput", <<"tty">>),
                NewUnitOption("Service", "StandardOutput", <<"tty">>),
                NewUnitOption("Service", "StandardError", <<"tty">>) >>
        ELSE << NewUnitOption("Service", "StandardOutput", <<"journal+console">>),
                NewUnitOption("Service", "StandardError", <<"journal+console">>),
                NewUnitOption("Service", "SyslogIdentifier", Base(ra.Exec[1])) >>)
    \o << NewUnitOption("Unit", "OnFailure", <<"halt.target">>) >>

\* The loop of appToSystemd over app.EventHandlers: [err, opts].
RECURSIVE AddEventHandlers(_, _)
AddEventHandlers(opts, handlers) ==
    LET Typed(typ) ==
            AddEventHandlers(Append(opts, NewUnitOption("Service", typ,
                                                        QuotedExec(Head(handlers).Exec))),
                             Tail(handlers))
    IN IF handlers = <<>> THEN [err |-> "nil", opts |-> opts]
       ELSE IF Head(handlers).Name = "pre-start" THEN Typed("ExecStartPre")
       ELSE IF Head(handlers).Name = "post-stop" THEN Typed("ExecStopPost")
       ELSE [err |-> "unrecognized eventHandler", opts |-> <<>>]

\* The socket-activated ports of the app.
SaPorts_All(ports) == ports
SaPorts(ports) == SelectSeq(ports, LAMBDA port : port.SocketActivated)

\* findHostPort
RECURSIVE findHostPort(_, _)
findHostPort(ports, name) ==
    IF ports = <<>> THEN 0
    ELSE IF ports[Len(ports)].Name = name THEN ports[Len(ports)].HostPort
    ELSE findHostPort(SubSeq(ports, 1, Len(ports) - 1), name)

\* The switch of appToSystemd on the protocol of a port: "" is the default
\* case.
ListenOption_StreamByDefault(protocol) ==
    IF protocol = "udp" THEN "ListenDatagram" ELSE "ListenStream"
ListenOption(protocol) ==
    IF protocol = "tcp" THEN "ListenStream"
    ELSE IF protocol = "udp" THEN "ListenDatagram"
    ELSE ""

\* The loop of appToSystemd over the socket-activated ports: [err, opts].
RECURSIVE AddListeners(_, _, _)
AddListeners(p, sockopts, saPorts) ==
    LET Port(hostPort, sap) == IF hostPort = 0 THEN sap.Port ELSE hostPort
        Listen(proto, sap) ==
            IF proto = "" THEN [err |-> "unrecognized protocol", opts |-> <<>>]
            ELSE AddListeners(p,
                     Append(sockopts,
                            NewUnitOption("Socket", proto,
                                          Itoa(Port(findHostPort(p.Ports, sap.Name), sap)))),
                     Tail(saPorts))
    IN IF saPorts = <<>> THEN [err |-> "nil", opts |-> sockopts]
       ELSE Listen(ListenOption(Head(saPorts).Protocol), Head(saPorts))

SocketOptions(ra) ==
    << NewUnitOption("Unit", "Description",
                     <<"Application=">> \o ra.Name \o <<" Image=">> \o ra.Image
                     \o <<" ", "socket-activated ports">>),
       NewUnitOption("Unit", "DefaultDependencies", <<"false">>),
       NewUnitOption("Socket", "BindIPv6Only", <<"both">>),
       NewUnitOption("Socket", "Service", ServiceUnitName(ra.Name)) >>

\* The lines 525-571 of appToSystemd: the step, and the option of the
\* service unit that comes with the socket unit.
SocketSteps(fault, p, ra, saPorts) ==
    LET Written(l) ==
            IF l.err # "nil" THEN <<Step(l.err, <<>>)>>
            ELSE << WriteStep(fault, "SocketUnit", "failed to create socket file",
                              FileWritten(SocketUnitPath(ra.Name), l.opts)),
                    WriteStep(fault, "SocketWant", "failed to link socket want",
                              SymlinkMade(Join(<< <<"..">>, SocketUnitName(ra.Name) >>),
                                          SocketWantPath(ra.Name))) >>
    IN IF saPorts = <<>> THEN <<>>
       ELSE Written(AddListeners(p, SocketOptions(ra), saPorts))

\* writeAppReaper
writeAppReaper(fault, appName) ==
    WriteStep(fault, "Reaper", "failed to write app reaper service",
        FileWritten(ReaperUnitPath(appName),
            << NewUnitOption("Unit", "Description", appName \o <<" Reaper">>),
               NewUnitOption("Unit", "DefaultDependencies", <<"false">>),
               NewUnitOption("Unit", "StopWhenUnneeded", <<"yes">>),
               NewUnitOption("Unit", "Wants", <<"shutdown.service">>),
               NewUnitOption("Unit", "After", <<"shutdown.service">>),
               NewUnitOption("Unit", "Conflicts", <<"exit.target">>),
               NewUnitOption("Unit", "Conflicts", <<"halt.target">>),
               NewUnitOption("Unit", "Conflicts", <<"poweroff.target">>),
               NewUnitOption("Service", "RemainAfterExit", <<"yes">>),
               NewUnitOption("Service", "ExecStop", <<"/reaper.sh ">> \o appName) >>))

\* The lines 573-595 of appToSystemd.
ServiceSteps(fault, ra, opts, saPorts) ==
    << WriteStep(fault, "ServiceUnit", "failed to create service unit file",
           FileWritten(ServiceUnitPath(ra.Name),
               opts
               \o (IF saPorts # <<>>
                   THEN <<NewUnitOption("Unit", "Requires", SocketUnitName(ra.Name))>>
                   ELSE <<>>)
               \o << NewUnitOption("Unit", "Requires", InstantiatedPrepareAppUnitName(ra.Name)),
                     NewUnitOption("Unit", "After", InstantiatedPrepareAppUnitName(ra.Name)),
                     NewUnitOption("Unit", "Requires", <<"sysusers.service">>),
                     NewUnitOption("Unit", "After", <<"sysusers.service">>) >>)),
       WriteStep(fault, "ServiceWant", "failed to link service want",
                 SymlinkMade(Join(<< <<"..">>, ServiceUnitName(ra.Name) >>),
                             ServiceWantPath(ra.Name))),
       writeAppReaper(fault, ra.Name) >>

\* appToSystemd for the app ra of the pod p, on the host f with the accounts
\* acc of the app, the write at the place fault failing: [err, writes, env],
\* env being the environment of the app in the manifest after the call.
appToSystemd(f, acc, p, ra, fault) ==
    LET Options(bin, ug) ==
            IF bin.err # "nil" \/ ug.err # "nil" THEN [err |-> "nil", opts |-> <<>>]
            ELSE AddEventHandlers(ServiceOptions(p, ra, bin.path, ug.uid, ug.gid),
                                  ra.EventHandlers)
        Isolated(o) ==
            IF o.err # "nil" THEN o
            ELSE AddIsolators(f, Append(o.opts, NewUnitOption("Service", "TimeoutStartSec",
                                                              <<"0">>)),
                              ra.Isolators)
        Steps(env, ug, bin, handled, isolated) ==
            << writeEnvFile(fault, "EnvFileSystemd", env, "\n", EnvFilePathSystemd(ra.Name)),
               writeEnvFile(fault, "EnvFileEnterexec", env, "\\000",
                            EnvFilePathEnterexec(ra.Name)),
               Step(ug.err, <<>>),
               generateSysusers(fault, ra, ug.uid, ug.gid),
               Step(bin.err, <<>>),
               Step(handled.err, <<>>),
               Step(isolated.err, <<>>) >>
            \o SocketSteps(fault, p, ra, SaPorts(ra.Ports))
            \o ServiceSteps(fault, ra, isolated.opts, SaPorts(ra.Ports))
        Run(v, ug, bin, handled) ==
            RunSteps(Steps(v.env, ug, bin, handled, Isolated(handled)))
        From(v, ug, bin) == Run(v, ug, bin, Options(bin, ug))
        Result(v, r) == [err |-> r.err, writes |-> r.writes, env |-> v.manifest]
        Begun(v) ==
            Result(v, From(v, parseUserGroup(f, acc, BlankUidRange, AppRoot, ra.User, ra.Group),
                           BinPath(f, AppRoot, ra)))
    IN IF ra.Exec = <<>>
       THEN [err |-> "empty exec", writes |-> <<>>, env |-> ra.Environment]
       ELSE Begun(AppEnv(p, ra))

\* The loop of WriteDefaultTarget over the apps of the manifest.
RECURSIVE AddAppTargets(_, _)
AddAppTargets(opts, apps) ==
    IF apps = <<>> THEN opts
    ELSE AddAppTargets(opts \o << NewUnitOption("Unit", "After",
                                                ServiceUnitName(Head(apps).Name)),
                                  NewUnitOption("Unit", "Wants",
                                                ServiceUnitName(Head(apps).Name)) >>,
                       Tail(apps))

\* WriteDefaultTarget: [err, writes]
WriteDefaultTarget(fault, p) ==
    WriteStep(fault, "DefaultTarget", "open failed",
        FileWritten(DefaultTargetPath,
            AddAppTargets(<< NewUnitOption("Unit", "Description", <<"rkt apps target">>),
                             NewUnitOption("Unit", "DefaultDependencies", <<"false">>) >>,
                          p.Apps)))

\* writeShutdownService: flavor is what GetFlavor gives, [err, flavor,
\* systemdVersion].
writeShutdownService(fault, flavor) ==
    LET Verb ==
            IF flavor.flavor # "coreos" /\ flavor.systemdVersion # 0
               /\ flavor.systemdVersion < 227
            THEN <<"halt">> ELSE <<"exit">>
    IN IF flavor.err # "nil" THEN Step(flavor.err, <<>>)
       ELSE WriteStep(fault, "ShutdownUnit", "failed to create unit file",
               FileWritten(ShutdownUnitPath,
                   << NewUnitOption("Unit", "Description", <<"Pod shutdown">>),
                      NewUnitOption("Unit", "AllowIsolate", <<"true">>),
                      NewUnitOption("Unit", "StopWhenUnneeded", <<"yes">>),
                      NewUnitOption("Unit", "DefaultDependencies", <<"false">>),
                      NewUnitOption("Service", "RemainAfterExit", <<"yes">>),
                      NewUnitOption("Service", "ExecStop",
                                    <<"/usr/bin/systemctl --force ">> \o Verb) >>))

(***************************************************************************)
(* UnitEmitter calls.  The run of PodToSystemd is a record: the pod, whose  *)
(* Apps are the manifest as it is now, the manifest as it was, the index of *)
(* the app the loop is at, the writes made so far and what was returned.    *)
(***************************************************************************)

\* The most apps of a pod.
MaxApps == 2

\* The host: the rootfs of the apps with /bin/myapp, and the knob files of
\* the cpu and memory controllers.
EmitterFs ==
    BaseFs @@ (BinMyapp :> ExecFile)
    @@ (P(<<<<"rootfs">>, <<"bin">>, <<"out">>>>) :> Symlink(<<"..", "/", "..", "/", "etc", "/", "x">>))
    @@ SysBase
    @@ (ControllerDir("cpu") :> Dir) @@ (KnobFile("cpu") :> PlainFile)
    @@ (ControllerDir("memory") :> Dir) @@ (KnobFile("memory") :> PlainFile)

\* /etc/passwd and /etc/group of the apps hold no account.
EmitterAccounts == [passwd |-> NoFile, group |-> NoFile]

Port(name, protocol, port, socketActivated) ==
    [Name |-> name, Protocol |-> protocol, Port |-> port, SocketActivated |-> socketActivated]
EnvVar(name, value) == [Name |-> name, Value |-> value]
EventHandler(name, exec) == [Name |-> name, Exec |-> exec]

\* An app that every step of appToSystemd accepts, with a socket-activated
\* port.
PlainApp ==
    [Name |-> <<"app">>, Image |-> <<"example.com/app">>,
     Exec |-> << <<"/", "bin", "/", "myapp">>, <<"-", "-", "o", "'", "$">> >>,
     User |-> <<"root">>, Group |-> <<"root">>, WorkingDirectory |-> <<>>,
     Environment |-> <<>>, EnvSpare |-> 0, EventHandlers |-> <<>>,
     Ports |-> <<Port(<<"http">>, "tcp", 80, TRUE)>>,
     Isolators |-> <<>>, SupplementaryGIDs |-> <<>>]

\* The kinds of apps: ones that appToSystemd accepts and one for each way it
\* gives up.
AppKinds ==
    { PlainApp,
      [PlainApp EXCEPT !.Exec = << <<"myapp">> >>, !.Ports = <<>>,
                       !.Environment = <<EnvVar(<<"AC_APP_NAME">>, <<"declared">>)>>,
                       !.Isolators = <<Isolator("cpu", Quantity(500)),
                                       Isolator("memory", Quantity(2000))>>,
                       !.SupplementaryGIDs = <<5>>, !.WorkingDirectory = <<"/", "srv">>],
      [PlainApp EXCEPT !.Ports = <<Port(<<"dns">>, "udp", 53, TRUE),
                                   Port(<<"admin">>, "sctp", 81, FALSE),
                                   Port(<<"http">>, "tcp", 80, TRUE)>>,
                       !.Environment = <<EnvVar(<<"PATH">>, <<"/", "bin">>),
                                         EnvVar(<<"AC_METADATA_URL">>, <<"declared">>)>>,
                       !.EnvSpare = 1,
                       !.EventHandlers = <<EventHandler("pre-start", << <<"/bin/true">> >>),
                                           EventHandler("post-stop", << <<"/bin/true">> >>)>>],
      [PlainApp EXCEPT !.Ports = <<Port(<<"admin">>, "tcp", 81, FALSE)>>,
                       !.Environment = <<EnvVar(<<"AC_METADATA_URL">>, <<"declared">>)>>],
      [PlainApp EXCEPT !.Ports = <<Port(<<"http">>, "tcp", 80, TRUE),
                                   Port(<<"assoc">>, "sctp", 82, TRUE)>>],
      [PlainApp EXCEPT !.Exec = <<>>],
      [PlainApp EXCEPT !.EventHandlers = <<EventHandler("on-start", << <<"/bin/true">> >>)>>],
      [PlainApp EXCEPT !.Isolators = <<Isolator("cpu", Quantity(MaxInt))>>],
      [PlainApp EXCEPT !.Exec = << <<"out">> >>],
      [PlainApp EXCEPT !.User = <<"/", "nofile">>] }

AppNames == << <<"web">>, <<"db">>, <<"log">>, <<"job">> >>

\* The apps of a manifest have different names.
Named(kinds) ==
    [i \in DOMAIN kinds |->
        [kinds[i] EXCEPT !.Name = AppNames[i], !.Image = <<"example.com/">> \o AppNames[i]]]

Pods ==
    { [Apps |-> Named(kinds), interactive |-> h[1], MetadataServiceURL |-> h[2],
       Ports |-> h[3]] :
        kinds \in UNION { [1..n -> AppKinds] : n \in 0..Min({MaxApps, Len(AppNames)}) },
        h \in { <<FALSE, <<>>, <<>>>>,
                <<TRUE, <<"http://169.254.169.255">>,
                  <<[Name |-> <<"http">>, HostPort |-> 8080]>>>> } }

AppFaults ==
    {"none", "EnvFileSystemd", "EnvFileEnterexec", "Sysusers", "SocketUnit", "SocketWant",
     "ServiceUnit", "ServiceWant", "Reaper"}

\* What GetFlavor gives.
Flavors ==
    { [err |-> "nil", flavor |-> "coreos", systemdVersion |-> 225],
      [err |-> "nil", flavor |-> "src", systemdVersion |-> 226],
      [err |-> "nil", flavor |-> "src", systemdVersion |-> 0],
      [err |-> "unable to determine stage1 flavor", flavor |-> "", systemdVersion |-> -1] }

CallPodToSystemd ==
    /\ emitted = NoCall
    /\ \E p \in Pods :
          emitted' = [op |-> "PodToSystemd", p |-> p, manifest0 |-> p.Apps, i |-> 1,
                      pc |-> IF p.Apps = <<>> THEN "shutdown" ELSE "apps",
                      ret |-> "running", failure |-> "nil", failedApp |-> 0,
                      writes |-> <<>>, target |-> "none"]
    /\ UNCHANGED <<fs, exceptEmitter>>

\* The run after appToSystemd gave r for the app the loop is at.
AfterApp_KeepGoing(e, r) ==
    [e EXCEPT !.p.Apps[e.i].Environment = r.env,
              !.writes = e.writes \o r.writes,
              !.failure = r.err,
              !.failedApp = IF r.err # "nil" THEN e.i ELSE e.failedApp,
              !.i = e.i + 1,
              !.pc = IF e.i + 1 > Len(e.p.Apps) THEN "shutdown" ELSE "apps"]

AfterApp(e, r) ==
    IF r.err # "nil"
    THEN [e EXCEPT !.p.Apps[e.i].Environment = r.env,
                   !.writes = e.writes \o r.writes,
                   !.pc = "returned", !.ret = "error", !.failure = r.err,
                   !.failedApp = e.i]
    ELSE [e EXCEPT !.p.Apps[e.i].Environment = r.env,
                   !.writes = e.writes \o r.writes,
                   !.i = e.i + 1,
                   !.pc = IF e.i + 1 > Len(e.p.Apps) THEN "shutdown" ELSE "apps"]

\* The body of the loop of PodToSystemd.
TransformApp ==
    /\ emitted # NoCall /\ emitted.pc = "apps"
    /\ \E fault \in AppFaults :
          emitted' = AfterApp(emitted,
                              appToSystemd(fs, EmitterAccounts, emitted.p,
                                           emitted.p.Apps[emitted.i], fault))
    /\ UNCHANGED <<fs, exceptEmitter>>

WriteShutdownService ==
    /\ emitted # NoCall /\ emitted.pc = "shutdown"
    /\ \E fault \in {"none", "ShutdownUnit"}, flavor \in Flavors :
          LET Written(r) ==
                [emitted EXCEPT !.writes = emitted.writes \o r.writes,
                                !.pc = "returned",
                                !.ret = IF r.err # "nil" THEN "error" ELSE "nil",
                                !.failure = r.err]
          IN emitted' = Written(writeShutdownService(fault, flavor))
    /\ UNCHANGED <<fs, exceptEmitter>>

CallWriteDefaultTarget ==
    /\ emitted # NoCall /\ emitted.pc = "returned" /\ emitted.target = "none"
    /\ \E fault \in {"none", "DefaultTarget"} :
          LET Written(r) ==
                [emitted EXCEPT !.writes = emitted.writes \o r.writes,
                                !.target = IF r.err # "nil" THEN "error" ELSE "nil"]
          IN emitted' = Written(WriteDefaultTarget(fault, emitted.p))
    /\ UNCHANGED <<fs, exceptEmitter>>

EmitterInit ==
    /\ fs = EmitterFs
    /\ emitted = NoCall
    /\ PathIdle /\ IdentIdle /\ IsolatorIdle /\ CatalogIdle /\ MounterIdle /\ QuoteIdle

EmitterNext ==
    \/ CallPodToSystemd
    \/ TransformApp
    \/ WriteShutdownService
    \/ CallWriteDefaultTarget

EmitterSpec == EmitterInit /\ [][EmitterNext]_vars

(***************************************************************************)
(* UnitEmitter properties                                                   *)
(***************************************************************************)

Emitting == emitted # NoCall

\* The writes of the run at a path, and whether there is exactly one.
WritesAt(path) == { k \in DOMAIN emitted.writes : emitted.writes[k].path = path }
Wrote(path) == WritesAt(path) # {}
WroteOnce(path) == Cardinality(WritesAt(path)) = 1
ContentAt(path) == emitted.writes[Min(WritesAt(path))].content

\* The apps that appToSystemd was called for, and those it accepted.
Transformed ==
    { j \in DOMAIN emitted.manifest0 : j < emitted.i \/ emitted.failedApp = j }
Accepted == { j \in Transformed : emitted.failedApp # j }

\* The socket-activated ports of an app of the manifest.
SocketPorts(j) ==
    SelectSeq(emitted.manifest0[j].Ports, LAMBDA port : port.SocketActivated = TRUE)

\* The listen options of a socket unit.
Listeners(content) ==
    SelectSeq(content, LAMBDA o : o.Section = "Socket" /\ o.Name # "BindIPv6Only"
                                  /\ o.Name # "Service")

\* C16: in appToSystemd every socket-activated port with protocol "tcp"
\* gives a ListenStream option of the socket unit and every one with
\* protocol "udp" a ListenDatagram option; when a socket-activated port has
\* another protocol, appToSystemd returns an error and writes neither the
\* socket unit nor the service unit of the app.
C16_ListenersByProtocol ==
    Emitting =>
        \A j \in Transformed :
           LET name == emitted.manifest0[j].Name
               ports == SocketPorts(j)
               known == \A k \in DOMAIN ports : ports[k].Protocol \in {"tcp", "udp"}
           IN /\ ~known => /\ emitted.failedApp = j /\ emitted.ret = "error"
                           /\ ~Wrote(SocketUnitPath(name))
                           /\ ~Wrote(ServiceUnitPath(name))
              /\ (j \in Accepted /\ ports # <<>>) => Wrote(SocketUnitPath(name))
              /\ Wrote(SocketUnitPath(name)) =>
                    /\ Len(Listeners(ContentAt(SocketUnitPath(name)))) = Len(ports)
                    /\ \A k \in DOMAIN ports :
                          Listeners(ContentAt(SocketUnitPath(name)))[k].Name =
                             (IF ports[k].Protocol = "tcp" THEN "ListenStream"
                              ELSE "ListenDatagram")

\* An app with a udp and a tcp socket was accepted and the next one, with a
\* tcp and an sctp socket, was not.
C16_Witness ==
    /\ Emitting /\ emitted.failedApp = 2 /\ emitted.failure = "unrecognized protocol"
    /\ Len(SocketPorts(1)) = 2 /\ SocketPorts(1)[1].Protocol = "udp"
    /\ Wrote(SocketUnitPath(emitted.manifest0[1].Name))
    /\ Len(SocketPorts(2)) = 2 /\ SocketPorts(2)[1].Protocol = "tcp"

\* The paths of the files of an app, the socket unit and its symlink aside.
AppFiles(name) ==
    { EnvFilePathSystemd(name), EnvFilePathEnterexec(name), SysusersFile(name),
      ServiceUnitPath(name), ServiceWantPath(name), ReaperUnitPath(name) }
SocketFiles(name) == { SocketUnitPath(name), SocketWantPath(name) }

\* The values of the options of a name in a unit.
ValuesOf(content, optionName) ==
    SelectSeq(content, LAMBDA o : o.Section = "Unit" /\ o.Name = optionName)

\* C18: after PodToSystemd and WriteDefaultTarget both succeeded, every app
\* of the manifest has exactly one service unit, one reaper unit and one
\* sysusers file, and has a socket unit with its activation symlink if and
\* only if it has a socket-activated port; there is exactly one shutdown
\* unit; the default target has an After and a Wants entry for the service
\* unit of every app and for no other unit.
C18_UnitsOfThePod ==
    (Emitting /\ emitted.ret = "nil" /\ emitted.target = "nil") =>
        LET names == { emitted.manifest0[j].Name : j \in DOMAIN emitted.manifest0 }
            target == ContentAt(DefaultTargetPath)
        IN /\ \A j \in DOMAIN emitted.manifest0 :
                 LET name == emitted.manifest0[j].Name
                 IN /\ WroteOnce(ServiceUnitPath(name))
                    /\ WroteOnce(ReaperUnitPath(name))
                    /\ WroteOnce(SysusersFile(name))
                    /\ IF SocketPorts(j) # <<>>
                       THEN /\ WroteOnce(SocketUnitPath(name))
                            /\ WroteOnce(SocketWantPath(name))
                            /\ emitted.writes[Min(WritesAt(SocketWantPath(name)))].kind = "symlink"
                       ELSE ~Wrote(SocketUnitPath(name)) /\ ~Wrote(SocketWantPath(name))
           /\ WroteOnce(ShutdownUnitPath)
           /\ WroteOnce(DefaultTargetPath)
           /\ \A k \in DOMAIN emitted.writes :
                 emitted.writes[k].path \in
                    {ShutdownUnitPath, DefaultTargetPath}
                    \cup UNION { AppFiles(n) \cup SocketFiles(n) : n \in names }
           /\ ValuesOf(target, "After")
                 = [j \in DOMAIN emitted.manifest0 |->
                      NewUnitOption("Unit", "After", ServiceUnitName(emitted.manifest0[j].Name))]
           /\ ValuesOf(target, "Wants")
                 = [j \in DOMAIN emitted.manifest0 |->
                      NewUnitOption("Unit", "Wants", ServiceUnitName(emitted.manifest0[j].Name))]

\* A pod of two apps, the first with socket-activated ports and the second
\* without, whose units and default target were written.
C18_Witness ==
    /\ Emitting /\ emitted.ret = "nil" /\ emitted.target = "nil"
    /\ Len(emitted.manifest0) = 2
    /\ SocketPorts(1) # <<>> /\ SocketPorts(2) = <<>>
    /\ emitted.manifest0[2].Ports # <<>>
    /\ Wrote(SocketUnitPath(emitted.manifest0[1].Name))

\* The fatal errors of the transformation of an app.
FatalErrors ==
    {"empty exec", "unrecognized eventHandler", "unrecognized protocol",
     "cpu limit exceeds the maximum millivalue", "error looking up",
     "unable to get uid from file"}

\* C19: PodToSystemd takes the apps in the order of the manifest and stops
\* at the first whose transformation fails: it returns an error, writes no
\* file for a later app and no shutdown unit, and removes no file written
\* for the earlier apps or for the failing app.
C19_StopsAtFirstFailingApp ==
    (Emitting /\ emitted.failedApp # 0) =>
        LET name(j) == emitted.manifest0[j].Name
            failed == emitted.failedApp
        IN /\ emitted.pc = "returned" /\ emitted.ret = "error"
           /\ emitted.i = failed
           /\ \A j \in DOMAIN emitted.manifest0 :
                 /\ j > failed =>
                       \A path \in AppFiles(name(j)) \cup SocketFiles(name(j)) : ~Wrote(path)
                 /\ j < failed =>
                       /\ \A path \in AppFiles(name(j)) : Wrote(path)
                       /\ SocketPorts(j) # <<>> =>
                             \A path \in SocketFiles(name(j)) : Wrote(path)
                       /\ \A k \in DOMAIN emitted.writes :
                             emitted.writes[k].path \in AppFiles(name(failed)) =>
                                \A path \in AppFiles(name(j)) : Min(WritesAt(path)) < k
           /\ ~Wrote(ShutdownUnitPath)
           /\ emitted.failure \in {"unrecognized eventHandler", "unrecognized protocol",
                                   "cpu limit exceeds the maximum millivalue",
                                   "error looking up"} =>
                 /\ Wrote(EnvFilePathSystemd(name(failed)))
                 /\ Wrote(EnvFilePathEnterexec(name(failed)))
                 /\ Wrote(SysusersFile(name(failed)))

\* The first of two apps has a port of an unknown protocol: the call has
\* returned an error, the environment files of the first app are there.
C19_Witness ==
    /\ Emitting /\ emitted.failedApp = 1 /\ Len(emitted.manifest0) = 2
    /\ emitted.failure = "unrecognized protocol" /\ emitted.ret = "error"
    /\ Wrote(EnvFilePathSystemd(emitted.manifest0[1].Name))

\* C20: appToSystemd and PodToSystemd leave the manifest as it was: after a
\* call, successful or failed, the environment of every app (a declared
\* AC_APP_NAME or AC_METADATA_URL among it), its isolators, supplementary
\* GIDs, exec and ports are what they were before the call.
C20_ManifestUnchanged ==
    Emitting =>
        \A j \in DOMAIN emitted.manifest0 :
           /\ emitted.p.Apps[j].Environment = emitted.manifest0[j].Environment
           /\ emitted.p.Apps[j].Isolators = emitted.manifest0[j].Isolators
           /\ emitted.p.Apps[j].SupplementaryGIDs = emitted.manifest0[j].SupplementaryGIDs
           /\ emitted.p.Apps[j].Exec = emitted.manifest0[j].Exec
           /\ emitted.p.Apps[j].Ports = emitted.manifest0[j].Ports

(***************************************************************************)
(* PathResolver: idempotence                                                *)
(***************************************************************************)

\* Every component of path exists inside the app root and none is a symlink.
SymlinkFree(f, appRootfs, path) ==
    LET comps == Split(path, "/") IN
    \A k \in 1..Len(comps) :
       LET upTo == Join(<<appRootfs>> \o SubSeq(comps, 1, k))
           fi == Lstat(f, upTo)
       IN /\ Inside(appRootfs, upTo)
          /\ fi.err = "nil"
          /\ fi.node.kind # "symlink"

\* C21: evaluateSymlinksInsideApp is idempotent on resolved paths: a path,
\* with or without a leading "/", whose components all exist inside the app
\* root and are not symlinks is returned unchanged, and whenever the
\* function succeeds, applying it to its own result gives that result again.
C21_IdempotentOnResolvedPaths ==
    (resolved.op = "evaluateSymlinksInsideApp") =>
        /\ SymlinkFree(fs, resolved.appRootfs, resolved.in) =>
              /\ resolved.ret.err = "nil"
              /\ resolved.ret.path = resolved.in
        /\ resolved.ret.err = "nil" =>
              LET again == evaluateSymlinksInsideApp(fs, resolved.appRootfs, resolved.ret.path)
              IN again.err = "nil" /\ again.path = resolved.ret.path

(***************************************************************************)
(* CgroupMounter: the order of the calls of a hierarchy                     *)
(***************************************************************************)

IsCgroupMount(op) == op.call = "Mount" /\ op.fstype = <<"cgroup">>
IsFinalRemount(op) == IsRemount(op) /\ op.target = CgroupTmpfs(mounted.root)

\* The calls at the places S of the trace t that succeeded.
OkAt(t, S) == { i \in S : t[i].ok }

\* The order of the calls of the trace t, given where they are: mounts,
\* binds and remounts are the places of the cgroup mount, of the bind mounts
\* and of the read-only remount of each hierarchy, final those of the
\* read-only remount of the tmpfs, links and systemd those of the creation
\* of the symlinks and of the systemd directory.
InOrder(t, ks, mounts, binds, remounts, final, links, systemd, linkPaths) ==
    /\ \A i \in DOMAIN t :
          IsBindMount(t[i]) => \E k \in ks : i \in binds[k]
    /\ \A k \in ks :
          /\ \A i \in mounts[k], j \in binds[k] : i < j
          /\ \A i \in binds[k], j \in remounts[k] : i < j
          /\ \A i \in mounts[k], j \in remounts[k] : i < j
          /\ binds[k] \cup remounts[k] # {} => OkAt(t, mounts[k]) # {}
    /\ \A j \in final :
          /\ j = Len(t)
          /\ \A k \in ks : \A i \in mounts[k] \cup binds[k] \cup remounts[k] : i < j
          /\ \A i \in links \cup systemd : i < j
          /\ \A k \in ks : OkAt(t, remounts[k]) # {}
          /\ \A path \in linkPaths : \E i \in OkAt(t, links) : t[i].target = path
          /\ OkAt(t, systemd) # {}

\* The places of the calls in the trace t, cPaths being the directories of
\* the hierarchies and tmpfs that of the cgroup tmpfs.
PlacesInOrder(t, tmpfs, cPaths, linkNames) ==
    InOrder(t, DOMAIN cPaths,
            [k \in DOMAIN cPaths |->
               { i \in DOMAIN t : IsCgroupMount(t[i]) /\ t[i].target = cPaths[k] }],
            [k \in DOMAIN cPaths |->
               { i \in DOMAIN t : IsBindMount(t[i]) /\ Under(t[i].target, cPaths[k]) }],
            [k \in DOMAIN cPaths |->
               { i \in DOMAIN t : IsRemount(t[i]) /\ t[i].target = cPaths[k] }],
            { i \in DOMAIN t : IsRemount(t[i]) /\ t[i].target = tmpfs },
            { i \in DOMAIN t : t[i].call = "Symlink" },
            { i \in DOMAIN t : /\ t[i].call = "MkdirAll"
                               /\ t[i].target = Join(<<tmpfs, <<"systemd">>>>) },
            { Join(<<tmpfs, ln>>) : ln \in linkNames })

\* C22: in every execution of CreateCgroups, for each hierarchy the mount
\* of its cgroup filesystem precedes all the bind mounts of its per-app
\* knobs, and all of these precede its read-only remount; the final
\* read-only remount of the cgroup tmpfs comes after the read-only remount
\* of every hierarchy, after the creation of every symlink of a combined
\* controller and after the creation of the systemd directory; nothing is
\* created under the cgroup tmpfs after its read-only remount.
C22_MountBindRemountPerHierarchy ==
    Running =>
        /\ PlacesInOrder(mounted.trace, CgroupTmpfs(mounted.root),
                         [k \in DOMAIN mounted.controllers |->
                            ControllerPath(mounted.root, mounted.controllers[k])],
                         DOMAIN mounted.symlinks)
        /\ Succeeded => IsFinalRemount(mounted.trace[Len(mounted.trace)])

\* A successful run over two hierarchies, one of them of combined
\* controllers, with knobs bound for both and the tmpfs remounted last.
C22_Witness ==
    /\ Succeeded
    /\ Len(mounted.controllers) = 2 /\ DOMAIN mounted.symlinks # {}
    /\ mounted.serviceNames # <<>>
    /\ \A k \in DOMAIN mounted.controllers :
          \E j \in DOMAIN mounted.trace :
             /\ IsBindMount(mounted.trace[j])
             /\ Under(mounted.trace[j].target,
                      ControllerPath(mounted.root, mounted.controllers[k]))
    /\ IsFinalRemount(mounted.trace[Len(mounted.trace)])

====
